---- MODULE Spec2Model ----
(***************************************************************************)
(* Model of the Vesta boiler supervisor (BoilerCoordinator) and its        *)
(* CircuitBreaker, custom_components/vesta/coordinator.py, of the target   *)
(* selection of a zone entity (VestaClimate), custom_components/vesta/     *)
(* climate.py, and of the target modes, custom_components/vesta/           *)
(* target_modes.py; of the output a zone applies to its valves and its     *)
(* demand (climate.py), of the thermal learning (learning.py), of the      *)
(* window and presence managers (manager.py) and of the calculations of    *)
(* domain/climate.py.                                                      *)
(*                                                                         *)
(* Times are whole seconds, measured from the current clock reading: the   *)
(* clock reads Now, a timestamp the program stores is its distance from    *)
(* Now, and the passage of d seconds (Tick) moves every stored timestamp d *)
(* seconds closer.  A timestamp already in the past stays at Now: the      *)
(* program only asks whether it has passed.  An optional value (None or a  *)
(* value) is the empty tuple or a one-element tuple.  The coordinator      *)
(* object is the record coord; each method is an operator from a record to *)
(* a record, composed in program order.  A method that awaits the actuator *)
(* driver is split at the await: the part before it (..._begin) and the    *)
(* part after it (..._end); while the driver call is in flight the         *)
(* variable call holds it and the asyncio lock is held.  A driver call     *)
(* returns within the clock second in which it was issued.                 *)
(***************************************************************************)
EXTENDS Integers, Sequences, FiniteSets, TLC

VARIABLES
    coord,            \* the BoilerCoordinator object (with its CircuitBreaker)
    call,             \* the driver call in flight under _state_lock, or None
    waiters,          \* tasks waiting for _state_lock, in arrival order
    windows,          \* number of debounce timers started so far
    latest,           \* history: last demand passed to async_update_demand per zone
    ran,              \* history: the locked operation the last step began, or None
    master_warnings,  \* history: number of "master switch unavailable" warnings logged
    failures,         \* history: record_failure calls since the last record_success
    hold,             \* history: end of the minimum cycle begun by the turn-off that
                      \*   last left Firing, while no other actuator decision followed
    direct,           \* history: the direct CircuitBreaker call of the last step, or None
    last,             \* history: the entry point or driver return of the last step, or None
    budget,           \* the value of retry_attempts up to which the behaviour is followed
    climate,          \* a VestaClimate entity with the timers it has pending
    arb,              \* a TargetMode, a TargetContext and the target computed from them
    did,              \* history: the zone entry point or timer of the last step, or None
    learning,         \* a thermal-learning helper with its history and active cycle
    wm,               \* a WindowManager with its hold timer
    pm,               \* a PresenceManager with the states of the entities it reads
    calc,             \* a function of domain/climate.py, its arguments and its result
    tasks,            \* the _apply_output calls of the zone suspended at an await
    cycles,           \* the zone's entries in _active_heating and _active_cooling
    overlapped        \* history: two _apply_output calls have been under way at once

vars == <<coord, call, waiters, windows, latest, ran, master_warnings,
          failures, hold, direct, last, budget, climate, arb, did,
          learning, wm, pm, calc, tasks, cycles, overlapped>>

----------------------------------------------------------------------------
(* Program constants                                                       *)

FAILSAFE_RETRY_SECONDS == 60
RETRY_MAX_SECONDS == 3600
DEMAND_UPDATE_DEBOUNCE_SECONDS == 5
CIRCUIT_BREAKER_FAILURES == 3
CIRCUIT_BREAKER_RESET_SECONDS == 300
SECONDS_PER_MINUTE == 60
MIN_TARGET_TEMP == 5
MAX_TARGET_TEMP == 30
BOOST_DURATION == 5400
VALVE_MAINTENANCE_HIGH == 30
MIN_CYCLE_SECONDS == 900
MAX_HISTORY_POINTS == 50
MIN_HISTORY_POINTS == 5
TEMP_HISTORY_SECONDS == 180
WINDOW_DROP == 50
PRESENCE_HYSTERESIS == 5
DEFAULT_BERMUDA_THRESHOLD == 25
DEFAULT_COMPENSATION_GAIN == 2
DEFAULT_COMPENSATION_MIN == 5
DEFAULT_COMPENSATION_MAX == 30

(* Bounds of the model                                                     *)

MaxWindows == 1
MaxWaiters == 1
MaxRetryAttempts == 4
MaxBackoffAttempts == 7
MaxLog == 2
MaxCycles == 52
MaxRejected == 1
MaxSampleAge == 240

Zones == {"zone1", "zone2"}
MasterStates == {"missing", "unavailable", "unknown", "on", "off", "heat"}
MinCycleChoices == {0, 1}

\* dt_util.utcnow(): the origin of the time scale
Now == 0

None == << >>
Some(x) == << x >>

Max(a, b) == IF a >= b THEN a ELSE b
Min(a, b) == IF a <= b THEN a ELSE b

RECURSIVE Pow2(_)
Pow2(n) == IF n <= 0 THEN 1 ELSE 2 * Pow2(n - 1)

----------------------------------------------------------------------------
(* CircuitBreaker                                                          *)

failure_threshold == Max(1, CIRCUIT_BREAKER_FAILURES)

NewBreaker ==
    [state |-> "closed", failure_count |-> 0, opened_until |-> None,
     half_open_in_flight |-> FALSE]

\* mutant: the half-open trial is admitted without being marked in flight
can_attempt_untracked(b, t) ==
    LET elapsed == b.opened_until # None /\ t >= b.opened_until[1]
        b1 == IF b.state = "open" /\ elapsed
              THEN [b EXCEPT !.state = "half_open", !.half_open_in_flight = FALSE]
              ELSE b
    IN  IF b.state = "open" /\ ~elapsed
        THEN [ok |-> FALSE, b |-> b]
        ELSE IF b1.state = "half_open" /\ b1.half_open_in_flight
             THEN [ok |-> FALSE, b |-> b1]
             ELSE [ok |-> TRUE, b |-> b1]

\* can_attempt: the answer and the breaker afterwards
can_attempt(b, t) ==
    LET elapsed == b.opened_until # None /\ t >= b.opened_until[1]
        b1 == IF b.state = "open" /\ elapsed
              THEN [b EXCEPT !.state = "half_open", !.half_open_in_flight = FALSE]
              ELSE b
    IN  IF b.state = "open" /\ ~elapsed
        THEN [ok |-> FALSE, b |-> b]
        ELSE IF b1.state = "half_open"
             THEN IF b1.half_open_in_flight
                  THEN [ok |-> FALSE, b |-> b1]
                  ELSE [ok |-> TRUE, b |-> [b1 EXCEPT !.half_open_in_flight = TRUE]]
             ELSE [ok |-> TRUE, b |-> b1]

record_success(b) ==
    [state |-> "closed", failure_count |-> 0, opened_until |-> None,
     half_open_in_flight |-> FALSE]

\* mutant: reopening keeps the deadline the breaker already had
breaker_open_stale(b, t) ==
    [state |-> "open", failure_count |-> 0,
     opened_until |-> IF b.opened_until = None
                      THEN Some(t + CIRCUIT_BREAKER_RESET_SECONDS)
                      ELSE b.opened_until,
     half_open_in_flight |-> FALSE]

breaker_open(b, t) ==
    [state |-> "open", failure_count |-> 0,
     opened_until |-> Some(t + CIRCUIT_BREAKER_RESET_SECONDS),
     half_open_in_flight |-> FALSE]

\* mutant: the breaker opens one failure late (> instead of >=)
record_failure_late(b, t) ==
    IF b.state = "half_open"
    THEN breaker_open(b, t)
    ELSE LET b1 == [b EXCEPT !.failure_count = @ + 1]
         IN  IF b1.failure_count > failure_threshold
             THEN breaker_open(b1, t)
             ELSE b1

record_failure(b, t) ==
    IF b.state = "half_open"
    THEN breaker_open(b, t)
    ELSE LET b1 == [b EXCEPT !.failure_count = @ + 1]
         IN  IF b1.failure_count >= failure_threshold
             THEN breaker_open(b1, t)
             ELSE b1

next_attempt_in(b, t) ==
    IF b.state # "open" \/ b.opened_until = None
    THEN 0
    ELSE Max(0, b.opened_until[1] - t)

----------------------------------------------------------------------------
(* BoilerCoordinator: synchronous helpers                                  *)

NewCoordinator(mc) ==
    [demand |-> << >>, pending_demand |-> << >>, demand_update_unsub |-> None,
     state |-> "idle", cooldown_until |-> None, breaker |-> NewBreaker,
     retry_unsub |-> None, retry_attempts |-> 0,
     master_state_warned |-> FALSE, min_cycle |-> mc]

\* dict[zone] = value
DictSet(d, k, v) == [z \in (DOMAIN d) \cup {k} |-> IF z = k THEN v ELSE d[z]]

\* dict.update(other)
DictUpdate(d, other) ==
    [z \in (DOMAIN d) \cup (DOMAIN other) |->
        IF z \in DOMAIN other THEN other[z] ELSE d[z]]

\* any(dict.values())
AnyDemand(d) == \E z \in DOMAIN d : d[z]

set_state(c, s) == [c EXCEPT !.state = s]

\* mutant: the pending debounce timer is left running
cancel_demand_update_kept(c) == c

cancel_demand_update(c) == [c EXCEPT !.demand_update_unsub = None]

\* mutant: every buffered update restarts the debounce timer
schedule_demand_update_restarting(c, clock) ==
    [c EXCEPT !.demand_update_unsub =
                  Some(clock + DEMAND_UPDATE_DEBOUNCE_SECONDS)]

\* async_call_later counts from the clock at the time of the call
schedule_demand_update(c, clock) ==
    IF c.demand_update_unsub # None
    THEN c
    ELSE [c EXCEPT !.demand_update_unsub =
                       Some(clock + DEMAND_UPDATE_DEBOUNCE_SECONDS)]

\* mutant: the flush replaces the demand map instead of merging into it
apply_pending_replacing(c) ==
    IF DOMAIN c.pending_demand = {}
    THEN [changed |-> FALSE, c |-> c]
    ELSE [changed |-> c.demand # c.pending_demand,
          c |-> [c EXCEPT !.demand = c.pending_demand,
                          !.pending_demand = << >>]]

apply_pending_demand_updates(c) ==
    IF DOMAIN c.pending_demand = {}
    THEN [changed |-> FALSE, c |-> c]
    ELSE [changed |->
              \E z \in DOMAIN c.pending_demand :
                  \/ z \notin DOMAIN c.demand
                  \/ c.demand[z] # c.pending_demand[z],
          c |-> [c EXCEPT !.demand = DictUpdate(c.demand, c.pending_demand),
                          !.pending_demand = << >>]]

cooldown_remaining(c, t) ==
    IF c.cooldown_until = None THEN 0 ELSE Max(0, c.cooldown_until[1] - t)

\* mutant: the minimum cycle is taken as seconds, not minutes
enter_cooldown_seconds(c, t) ==
    IF c.min_cycle <= 0
    THEN set_state([c EXCEPT !.cooldown_until = None], "idle")
    ELSE set_state([c EXCEPT !.cooldown_until = Some(t + c.min_cycle)],
                   "anti_cycle_cooldown")

\* mutant: a cooldown already running is extended, not restarted
enter_cooldown_extending(c, t) ==
    IF c.min_cycle <= 0
    THEN set_state([c EXCEPT !.cooldown_until = None], "idle")
    ELSE set_state([c EXCEPT !.cooldown_until =
                                 Some(Max(t, IF @ = None THEN t ELSE @[1])
                                          + c.min_cycle * SECONDS_PER_MINUTE)],
                   "anti_cycle_cooldown")

enter_cooldown(c, t) ==
    IF c.min_cycle <= 0
    THEN set_state([c EXCEPT !.cooldown_until = None], "idle")
    ELSE set_state([c EXCEPT !.cooldown_until =
                                 Some(t + c.min_cycle * SECONDS_PER_MINUTE)],
                   "anti_cycle_cooldown")

\* mutant: an elapsed cooldown ends without its deadline being cleared
update_cooldown_state_keeping(c, t) ==
    IF c.cooldown_until = None
    THEN IF c.state = "anti_cycle_cooldown" THEN set_state(c, "idle") ELSE c
    ELSE IF t >= c.cooldown_until[1]
         THEN IF c.state = "anti_cycle_cooldown"
              THEN set_state(c, "idle")
              ELSE c
         ELSE IF c.state \notin {"firing", "failsafe"}
              THEN set_state(c, "anti_cycle_cooldown")
              ELSE c

update_cooldown_state(c, t) ==
    IF c.cooldown_until = None
    THEN IF c.state = "anti_cycle_cooldown" THEN set_state(c, "idle") ELSE c
    ELSE IF t >= c.cooldown_until[1]
         THEN LET c1 == [c EXCEPT !.cooldown_until = None]
              IN  IF c1.state = "anti_cycle_cooldown"
                  THEN set_state(c1, "idle")
                  ELSE c1
         ELSE IF c.state \notin {"firing", "failsafe"}
              THEN set_state(c, "anti_cycle_cooldown")
              ELSE c

cancel_retry(c) == [c EXCEPT !.retry_unsub = None]

\* mutant: no retry timer is started
schedule_retry_dropped(c, delay, clock) == c

schedule_retry(c, delay, clock) ==
    IF delay <= 0 \/ c.retry_unsub # None
    THEN c
    ELSE [c EXCEPT !.retry_unsub = Some(clock + delay)]

\* mutant: the backoff is not capped at RETRY_MAX_SECONDS
failsafe_delay_uncapped(c, t) ==
    LET breaker_delay == next_attempt_in(c.breaker, t)
        backoff == FAILSAFE_RETRY_SECONDS * Pow2(c.retry_attempts)
    IN  IF breaker_delay > 0 THEN Max(breaker_delay, backoff) ELSE backoff

failsafe_delay(c, t) ==
    LET breaker_delay == next_attempt_in(c.breaker, t)
        backoff == Min(FAILSAFE_RETRY_SECONDS * Pow2(c.retry_attempts),
                       RETRY_MAX_SECONDS)
    IN  IF breaker_delay > 0 THEN Max(breaker_delay, backoff) ELSE backoff

----------------------------------------------------------------------------
(* BoilerCoordinator: the methods that await the actuator driver.  A       *)
(* ..._begin operator runs the method up to the await and yields the       *)
(* coordinator and the call it left in flight (None when the method ended  *)
(* without awaiting); t is the method's own reading of the clock.          *)

Done(c) == [c |-> c, call |-> None]
InFlight(c, kind, force) ==
    [c |-> c, call |-> Some([kind |-> kind, force |-> force])]

\* _turn_boiler_on after the driver returned
turn_boiler_on_end(c, t, success) ==
    IF success
    THEN [c EXCEPT !.breaker = record_success(@), !.retry_attempts = 0]
    ELSE [c EXCEPT !.breaker = record_failure(@, t)]

\* _ensure_boiler_on after _turn_boiler_on returned
ensure_boiler_on_end(c, t, success, clock) ==
    IF success
    THEN set_state(cancel_retry(c), "firing")
    ELSE LET c1 == set_state([c EXCEPT !.retry_attempts = @ + 1], "failsafe")
         IN  schedule_retry(c1, failsafe_delay(c1, t), clock)

ensure_boiler_on_begin(c, t) ==
    LET remaining == cooldown_remaining(c, t)
        breaker_delay == next_attempt_in(c.breaker, t)
        delay == Max(remaining, breaker_delay)
    IN  IF delay > 0
        THEN LET c1 == IF breaker_delay > 0
                       THEN set_state(c, "failsafe")
                       ELSE IF c.state # "failsafe"
                            THEN set_state(c, "anti_cycle_cooldown")
                            ELSE c
             IN  Done(schedule_retry(c1, delay, t))
        ELSE LET c1 == IF c.state = "anti_cycle_cooldown"
                       THEN set_state([c EXCEPT !.cooldown_until = None], "idle")
                       ELSE c
                 ca == can_attempt(c1.breaker, t)
                 c2 == [c1 EXCEPT !.breaker = ca.b]
             IN  IF ~ca.ok
                 THEN Done(ensure_boiler_on_end(c2, t, FALSE, t))
                 ELSE InFlight(c2, "on", FALSE)

\* _turn_boiler_off after the driver returned
turn_boiler_off_end(c, t, success) ==
    IF success
    THEN [c EXCEPT !.breaker = record_success(@), !.retry_attempts = 0]
    ELSE [c EXCEPT !.breaker = record_failure(@, t)]

\* mutant: a Failsafe resolved by a turn-off always ends Idle
ensure_boiler_off_end_forgetting_cooldown(c, t, force, success, was_on, clock) ==
    IF ~success
    THEN LET c1 == set_state([c EXCEPT !.retry_attempts = @ + 1], "failsafe")
         IN  schedule_retry(c1, failsafe_delay(c1, t), clock)
    ELSE LET c1 == cancel_retry(c)
         IN  IF was_on \/ force \/ c1.state = "firing"
             THEN enter_cooldown(c1, t)
             ELSE IF c1.state = "failsafe"
                  THEN set_state([c1 EXCEPT !.cooldown_until = None], "idle")
                  ELSE update_cooldown_state(c1, t)

\* _ensure_boiler_off after _turn_boiler_off returned (success, was_on)
ensure_boiler_off_end(c, t, force, success, was_on, clock) ==
    IF ~success
    THEN LET c1 == set_state([c EXCEPT !.retry_attempts = @ + 1], "failsafe")
         IN  schedule_retry(c1, failsafe_delay(c1, t), clock)
    ELSE LET c1 == cancel_retry(c)
         IN  IF was_on \/ force \/ c1.state = "firing"
             THEN enter_cooldown(c1, t)
             ELSE IF c1.state = "failsafe"
                  THEN IF cooldown_remaining(c1, t) > 0
                       THEN set_state(c1, "anti_cycle_cooldown")
                       ELSE set_state([c1 EXCEPT !.cooldown_until = None], "idle")
                  ELSE update_cooldown_state(c1, t)

\* mutant: turning off waits for the cooldown as turning on does
ensure_boiler_off_begin_delayed(c, t, force) ==
    LET remaining == cooldown_remaining(c, t)
        ca == can_attempt(c.breaker, t)
        c1 == [c EXCEPT !.breaker = ca.b]
    IN  IF remaining > 0
        THEN Done(schedule_retry(c, remaining, t))
        ELSE IF ~ca.ok
             THEN Done(ensure_boiler_off_end(c1, t, force, FALSE, FALSE, t))
             ELSE InFlight(c1, "off", force)

ensure_boiler_off_begin(c, t, force) ==
    LET ca == can_attempt(c.breaker, t)
        c1 == [c EXCEPT !.breaker = ca.b]
    IN  IF ~ca.ok
        THEN Done(ensure_boiler_off_end(c1, t, force, FALSE, FALSE, t))
        ELSE InFlight(c1, "off", force)

\* _BoilerState.handle_demand
handle_demand(c, t, demand) ==
    IF demand THEN ensure_boiler_on_begin(c, t)
              ELSE ensure_boiler_off_begin(c, t, FALSE)

MasterUnavailable(m) == m \in {"missing", "unavailable", "unknown"}

\* mutant: an unavailable master switch is treated as switched off
recalculate_begin_fail_closed(c, t, m) ==
    LET c1 == IF DOMAIN c.pending_demand # {}
              THEN apply_pending_demand_updates(cancel_demand_update(c)).c
              ELSE c
    IN  IF m = "off" \/ MasterUnavailable(m)
        THEN ensure_boiler_off_begin(c1, t, TRUE)
                 @@ [decision |-> "forced_off", warn |-> FALSE]
        ELSE LET c3 == update_cooldown_state(c1, t)
                 d  == AnyDemand(c3.demand)
             IN  handle_demand(c3, t, d)
                     @@ [decision |-> IF d THEN "on" ELSE "off", warn |-> FALSE]

\* mutant: the master switch is read but "off" is not acted upon
recalculate_begin_ignoring_master(c, t, m) ==
    LET c1 == IF DOMAIN c.pending_demand # {}
              THEN apply_pending_demand_updates(cancel_demand_update(c)).c
              ELSE c
        c2 == IF MasterUnavailable(m)
              THEN [c1 EXCEPT !.master_state_warned = TRUE]
              ELSE c1
        c3 == update_cooldown_state(c2, t)
        d  == AnyDemand(c3.demand)
    IN  handle_demand(c3, t, d)
            @@ [decision |-> IF m = "off" THEN "forced_off"
                             ELSE IF d THEN "on" ELSE "off",
                warn |-> MasterUnavailable(m) /\ ~c1.master_state_warned]

\* _recalculate, entered with _state_lock held, up to the driver call.
\* decision: the branch taken; warn: whether the warning was logged.
recalculate_begin(c, t, m) ==
    LET c1 == IF DOMAIN c.pending_demand # {}
              THEN apply_pending_demand_updates(cancel_demand_update(c)).c
              ELSE c
    IN  IF m = "off"
        THEN ensure_boiler_off_begin(c1, t, TRUE)
                 @@ [decision |-> "forced_off", warn |-> FALSE]
        ELSE LET c2 == IF MasterUnavailable(m)
                       THEN [c1 EXCEPT !.master_state_warned = TRUE]
                       ELSE c1
                 c3 == update_cooldown_state(c2, t)
                 d  == AnyDemand(c3.demand)
             IN  handle_demand(c3, t, d)
                     @@ [decision |-> IF d THEN "on" ELSE "off",
                         warn |-> MasterUnavailable(m) /\ ~c1.master_state_warned]

\* async_force_off, entered with _state_lock held, up to the driver call
force_off_begin(c, t) ==
    ensure_boiler_off_begin(c, t, TRUE)
        @@ [decision |-> "forced_off", warn |-> FALSE]

\* the rest of the locked operation once the driver call cl has returned
call_end(c, cl, t, success, was_on) ==
    IF cl.kind = "on"
    THEN ensure_boiler_on_end(turn_boiler_on_end(c, t, success), t, success, t)
    ELSE ensure_boiler_off_end(turn_boiler_off_end(c, t, success),
                               t, cl.force, success, was_on, t)

----------------------------------------------------------------------------
(* The event loop: one action per entry point, timer callback or resumed   *)
(* task.  _state_lock is held exactly while a driver call is in flight     *)
(* (call # None): every other part of a locked operation runs without      *)
(* suspending.  asyncio.Lock wakes its waiters in arrival order.           *)

LockFree == call = None /\ waiters = << >>

Logged(n, warn) == Min(n + (IF warn THEN 1 ELSE 0), MaxLog)
Counted(n) == Min(n + 1, failure_threshold + 1)

\* run the locked operation op on coordinator c up to its driver call;
\* m is the state the master switch entity has when _recalculate reads it
Ran(r, op, m) ==
    /\ r.c.retry_attempts <= budget
    /\ coord' = r.c
    /\ call' = r.call
    /\ ran' = Some([op |-> op, master |-> m, decision |-> r.decision])
    /\ master_warnings' = Logged(master_warnings, r.warn)
    /\ hold' = IF r.decision = "on" /\ r.call = None THEN hold ELSE None

Begin(op, c) ==
    IF op = "recalculate"
    THEN \E m \in MasterStates : Ran(recalculate_begin(c, Now, m), op, m)
    ELSE Ran(force_off_begin(c, Now), op, "unread")

\* mutant: the operation runs without taking _state_lock
Acquire_unlocked(op, c) ==
    Begin(op, c) /\ UNCHANGED waiters

\* "async with self._state_lock": run now, or queue behind the holder
Acquire(op, c) ==
    IF LockFree
    THEN Begin(op, c) /\ UNCHANGED waiters
    ELSE /\ Len(waiters) < MaxWaiters
         /\ waiters' = Append(waiters, op)
         /\ coord' = c
         /\ ran' = None
         /\ UNCHANGED <<call, master_warnings, hold>>

\* async_update_demand(zone_id, demand, immediate=...)
UpdateDemand(zone, demand, immediate) ==
    LET c1 == [coord EXCEPT !.pending_demand = DictSet(@, zone, demand)]
    IN  /\ latest' = DictSet(latest, zone, demand)
        /\ IF immediate
           THEN LET r == apply_pending_demand_updates(cancel_demand_update(c1))
                IN  IF r.changed
                    THEN Acquire("recalculate", r.c)
                    ELSE /\ coord' = r.c
                         /\ ran' = None
                         /\ UNCHANGED <<call, waiters, master_warnings, hold>>
           ELSE /\ coord' = schedule_demand_update(c1, Now)
                /\ ran' = None
                /\ UNCHANGED <<call, waiters, master_warnings, hold>>
        /\ windows' = IF ~immediate /\ coord.demand_update_unsub = None
                      THEN windows + 1
                      ELSE windows
        /\ windows' <= MaxWindows
        /\ last' = Some([kind |-> "update", immediate |-> immediate])
        /\ UNCHANGED <<failures, direct, budget, climate, arb, did, learning, wm, pm, calc, tasks, cycles, overlapped>>

\* the debounce timer fires: _flush
Flush ==
    /\ coord.demand_update_unsub = Some(Now)
    /\ LET r == apply_pending_demand_updates(
                    [coord EXCEPT !.demand_update_unsub = None])
       IN  IF r.changed
           THEN Acquire("recalculate", r.c)
           ELSE /\ coord' = r.c
                /\ ran' = None
                /\ UNCHANGED <<call, waiters, master_warnings, hold>>
    /\ last' = None
    /\ UNCHANGED <<windows, latest, failures, direct, budget, climate, arb, did, learning, wm, pm, calc, tasks, cycles, overlapped>>

\* the retry timer fires: _retry
Retry ==
    /\ coord.retry_unsub = Some(Now)
    /\ Acquire("recalculate", [coord EXCEPT !.retry_unsub = None])
    /\ last' = None
    /\ UNCHANGED <<windows, latest, failures, direct, budget, climate, arb, did, learning, wm, pm, calc, tasks, cycles, overlapped>>

\* async_recalculate()
Recalculate ==
    /\ Acquire("recalculate", coord)
    /\ last' = None
    /\ UNCHANGED <<windows, latest, failures, direct, budget, climate, arb, did, learning, wm, pm, calc, tasks, cycles, overlapped>>

\* async_force_off()
ForceOff ==
    /\ Acquire("force_off", coord)
    /\ last' = None
    /\ UNCHANGED <<windows, latest, failures, direct, budget, climate, arb, did, learning, wm, pm, calc, tasks, cycles, overlapped>>

\* the lock was released: the first waiter takes it
RunWaiter ==
    /\ call = None
    /\ waiters # << >>
    /\ Begin(Head(waiters), coord)
    /\ waiters' = Tail(waiters)
    /\ last' = None
    /\ UNCHANGED <<windows, latest, failures, direct, budget, climate, arb, did, learning, wm, pm, calc, tasks, cycles, overlapped>>

\* what the driver's turn_on / turn_off can do
DriverOutcomes ==
    {"ok", "entity unavailable", "set_temperature unavailable", "raised"}

\* mutant: the executor lets the driver's exception through
execute_propagating(outcome, was_on, propagate) ==
    [raised |-> outcome = "raised",
     success |-> outcome = "ok",
     was_on |-> outcome = "ok" /\ was_on]

\* CommandExecutor.execute: the CommandResult handed to the caller, or the
\* exception raised to it
execute(outcome, was_on, propagate) ==
    [raised |-> outcome = "raised" /\ propagate,
     success |-> outcome = "ok",
     was_on |-> outcome = "ok" /\ was_on]

\* the driver call returns through CommandExecutor.execute(propagate=False);
\* the operation runs to its end, or is left by the exception, and releases
\* the lock
CallReturns(outcome, was_on) ==
    /\ call # None
    /\ LET r == execute(outcome, was_on, FALSE)
           c == IF r.raised
                THEN coord
                ELSE call_end(coord, call[1], Now, r.success, r.was_on)
       IN  /\ c.retry_attempts <= budget
           /\ coord' = c
           /\ failures' = IF r.raised THEN failures
                          ELSE IF r.success THEN 0 ELSE Counted(failures)
           /\ hold' = IF /\ call[1].kind = "off"
                         /\ r.success
                         /\ coord.state = "firing"
                         /\ coord.min_cycle > 0
                      THEN Some(Now + coord.min_cycle * SECONDS_PER_MINUTE)
                      ELSE hold
           /\ last' = Some([kind |-> "return", outcome |-> outcome,
                            success |-> r.success, raised |-> r.raised,
                            was_on |-> r.was_on, call |-> call[1],
                            from |-> coord.state])
    /\ call' = None
    /\ ran' = None
    /\ UNCHANGED <<waiters, windows, latest, master_warnings, direct, budget, climate, arb, did, learning, wm, pm, calc, tasks, cycles, overlapped>>

\* deadlines the coordinator holds
Opt(o) == IF o = None THEN {} ELSE {o[1]}
TimerDeadlines(c) == Opt(c.demand_update_unsub) \cup Opt(c.retry_unsub)
Deadlines(c) ==
    TimerDeadlines(c) \cup Opt(c.cooldown_until) \cup Opt(c.breaker.opened_until)

\* the coordinator's timestamps after d seconds have passed
Later(o, d) == IF o = None THEN None ELSE Some(Max(Now, o[1] - d))
Shift(c, d) ==
    [c EXCEPT !.demand_update_unsub = Later(@, d),
              !.retry_unsub = Later(@, d),
              !.cooldown_until = Later(@, d),
              !.breaker.opened_until = Later(@, d)]

\* The clock advances to the next deadline of some kind, or by one second
\* into a debounce window (the shortest interval the program measures).  A
\* timer fires at its deadline and a task that is ready runs at once, so
\* the clock passes no pending timer, driver call or lock waiter.
DeadlineSteps(c) ==
    {d \in {t - Now : t \in Deadlines(c)} :
        /\ d > 0
        /\ \A t \in TimerDeadlines(c) : Now + d <= t}

WindowSteps(c) ==
    {d \in {1} : /\ c.demand_update_unsub # None
                 /\ \A t \in TimerDeadlines(c) : Now + d <= t}

TickSteps(c) == DeadlineSteps(c) \cup WindowSteps(c)

Tick(d) ==
    /\ LockFree
    /\ d \in TickSteps(coord)
    /\ coord' = Shift(coord, d)
    /\ hold' = Later(hold, d)
    /\ ran' = None
    /\ last' = None
    /\ UNCHANGED <<call, waiters, windows, latest, master_warnings,
                   failures, direct, budget, climate, arb, did, learning, wm, pm, calc, tasks, cycles, overlapped>>

----------------------------------------------------------------------------
(* Target modes (target_modes.py)                                         *)
(*                                                                         *)
(* Temperatures are whole degrees Celsius.  A TargetMode is its name and, *)
(* for the modes that carry one, its target_temp.                          *)

ModeNames == {"scheduled", "eco", "boost", "save", "preheat", "failsafe"}
FixedModes == {"boost", "save", "preheat", "failsafe"}

TargetMode(name, target_temp) == [name |-> name, target_temp |-> target_temp]

TargetContext(schedule_target, off_temp, comfort_temp, eco_temp, has_presence_sensors, presence_on) ==
    [schedule_target |-> schedule_target, off_temp |-> off_temp,
     comfort_temp |-> comfort_temp, eco_temp |-> eco_temp,
     has_presence_sensors |-> has_presence_sensors, presence_on |-> presence_on]

get_raw_target(mode, context) ==
    CASE mode.name = "scheduled" ->
             IF context.schedule_target # None
             THEN context.schedule_target[1] ELSE context.off_temp
      [] mode.name = "eco" -> context.eco_temp
      [] OTHER -> mode.target_temp

should_apply_presence_boost_always(mode) == TRUE

should_apply_presence_boost(mode) == mode.name \notin FixedModes

is_override(mode) == mode.name \in {"boost", "save"}

apply_presence_boost(target, context) ==
    IF /\ context.has_presence_sensors
       /\ context.presence_on
       /\ target <= context.off_temp
    THEN Max(target, context.comfort_temp)
    ELSE target

clamp_target(target) == Max(MIN_TARGET_TEMP, Min(MAX_TARGET_TEMP, target))

calculate_final_target(mode, context) ==
    LET raw == get_raw_target(mode, context)
    IN  clamp_target(IF should_apply_presence_boost(mode)
                     THEN apply_presence_boost(raw, context)
                     ELSE raw)

\* the Scheduled mode in the context of the test suite, no target computed
NoArbitration ==
    [mode |-> TargetMode("scheduled", 0),
     context |-> TargetContext(None, 12, 20, 16, TRUE, TRUE),
     final |-> None]

----------------------------------------------------------------------------
(* The zone entity (VestaClimate, climate.py): the fields its target       *)
(* selection reads and writes.  A timer started with async_call_later is   *)
(* an element of climate.timers until it fires or is cancelled; the handle    *)
(* the entity keeps (_boost_unsub, _preheat_apply_unsub,                   *)
(* _preheat_start_unsub) is that element.                                  *)

DEFAULT_OFF_TEMP == 5
DEFAULT_ECO_TEMP == 16
DEFAULT_COMFORT_TEMP == 21
WINDOW_HOLD_DURATION == 900
VALVE_MAINTENANCE_STEP == 120
FAILSAFE_TEMP == 15

NewZone(presence_sensors) ==
    [off_temp |-> DEFAULT_OFF_TEMP,
     comfort_temp |-> DEFAULT_COMFORT_TEMP,
     presence_sensors |-> presence_sensors,
     schedule_target |-> None,
     override_target |-> None,
     override_type |-> None,
     override_expires |-> None,
     boost_unsub |-> None,
     preheat_start_unsub |-> None,
     preheat_apply_unsub |-> None,
     presence_on |-> FALSE,
     preheat_active |-> FALSE,
     preheat_target |-> None,
     preheat_effective_at |-> None,
     pending_target |-> None,
     pending_effective_at |-> None,
     battery_lock |-> FALSE,
     current_temperature |-> None,
     startup_done |-> FALSE,
     \* hass.states: climate.home above zero, the guest switch, the eco number
     home |-> FALSE,
     guest |-> FALSE,
     eco |-> None,
     timers |-> {},
     \* configuration: the zone has temperature sensors, window sensors,
     \* the weekly valve exercise
     temp_sensors |-> TRUE,
     window_sensors |-> FALSE,
     valve_maintenance |-> TRUE,
     user_hvac_off |-> FALSE,
     window_open |-> FALSE,
     window_hold_until |-> None,
     window_hold_unsub |-> None,
     maintenance_active |-> FALSE,
     maintenance_task |-> None,
     demand |-> FALSE,
     \* hass.states: the master switch (None: no such entity), some window
     \* sensor reading on
     master |-> Some("on"),
     window |-> FALSE,
     \* what the running handler has done so far: it went through
     \* _apply_output, the last command it gave to the valves
     applied |-> FALSE,
     sent |-> None]

\* async_call_later(hass, delay, callback)
Timer(kind, delay, target, effective_at) ==
    [kind |-> kind, at |-> Now + delay, target |-> target,
     effective_at |-> effective_at]

\* calling the handle a timer returned: the timer no longer fires
Cancel(z, handle) ==
    IF handle = None THEN z.timers ELSE z.timers \ {handle[1]}

is_home(z) == z.home

is_guest_mode(z) == z.guest

eco_temp(z) == IF z.eco # None THEN z.eco[1] ELSE DEFAULT_ECO_TEMP

cancel_preheat(z) ==
    [z EXCEPT !.timers = Cancel([z EXCEPT !.timers = Cancel(z, z.preheat_start_unsub)],
                                z.preheat_apply_unsub),
              !.preheat_start_unsub = None,
              !.preheat_apply_unsub = None,
              !.preheat_active = FALSE,
              !.preheat_target = None,
              !.preheat_effective_at = None,
              !.pending_target = None,
              !.pending_effective_at = None]

clear_override(z) ==
    [z EXCEPT !.timers = Cancel(z, z.boost_unsub),
              !.boost_unsub = None,
              !.override_type = None,
              !.override_target = None,
              !.override_expires = None]

set_boost_override_stacking(z0, target) ==
    LET z == cancel_preheat(z0)
        t == Timer("boost", BOOST_DURATION, None, None)
    IN  [z EXCEPT !.override_type = Some("boost"),
                  !.override_target = Some(target),
                  !.override_expires = Some(Now + BOOST_DURATION),
                  !.timers = z.timers \cup {t},
                  !.boost_unsub = Some(t)]

set_boost_override(z0, target) ==
    LET z == cancel_preheat(z0)
        t == Timer("boost", BOOST_DURATION, None, None)
    IN  [z EXCEPT !.override_type = Some("boost"),
                  !.override_target = Some(target),
                  !.override_expires = Some(Now + BOOST_DURATION),
                  !.timers = Cancel(z, z.boost_unsub) \cup {t},
                  !.boost_unsub = Some(t)]

set_save_override(z0, target) ==
    LET z == cancel_preheat(z0)
    IN  [z EXCEPT !.timers = Cancel(z, z.boost_unsub),
                  !.boost_unsub = None,
                  !.override_type = Some("save"),
                  !.override_target = Some(target),
                  !.override_expires = None]

effective_target_override_first(z) ==
    IF z.override_target # None THEN z.override_target
    ELSE IF z.battery_lock THEN Some(VALVE_MAINTENANCE_HIGH)
    ELSE IF z.preheat_active /\ z.preheat_target # None THEN z.preheat_target
    ELSE LET stored == IF z.schedule_target = None
                       THEN z.off_temp ELSE z.schedule_target[1]
             schedule_target == IF ~is_guest_mode(z) /\ ~is_home(z)
                                THEN eco_temp(z) ELSE stored
         IN  IF /\ z.presence_sensors
                /\ z.presence_on
                /\ schedule_target <= z.off_temp
             THEN Some(Max(schedule_target, z.comfort_temp))
             ELSE Some(schedule_target)

effective_target(z) ==
    IF z.battery_lock THEN Some(VALVE_MAINTENANCE_HIGH)
    ELSE IF z.override_target # None THEN z.override_target
    ELSE IF z.preheat_active /\ z.preheat_target # None THEN z.preheat_target
    ELSE LET stored == IF z.schedule_target = None
                       THEN z.off_temp ELSE z.schedule_target[1]
             schedule_target == IF ~is_guest_mode(z) /\ ~is_home(z)
                                THEN eco_temp(z) ELSE stored
         IN  IF /\ z.presence_sensors
                /\ z.presence_on
                /\ schedule_target <= z.off_temp
             THEN Some(Max(schedule_target, z.comfort_temp))
             ELSE Some(schedule_target)

\* room temperatures are held in tenths of a degree, targets in degrees
Tenths(t) == 10 * t

is_master_enabled(z) == z.master = None \/ z.master = Some("on")

is_forced_off(z) ==
    IF z.battery_lock THEN FALSE
    ELSE IF ~is_master_enabled(z) THEN TRUE
    ELSE IF z.user_hvac_off THEN TRUE
    ELSE IF z.window_open THEN TRUE
    ELSE z.window_hold_until # None /\ Now < z.window_hold_until[1]

hvac_mode(z) == IF is_forced_off(z) THEN "off" ELSE "heat"

hvac_action(z) ==
    IF hvac_mode(z) = "off" THEN "off"
    ELSE IF z.demand THEN "heating" ELSE "idle"

update_demand_without_hysteresis(z, target) ==
    LET demand == /\ ~is_forced_off(z)
                  /\ target # None
                  /\ z.current_temperature # None
                  /\ z.current_temperature[1] < Tenths(target[1])
    IN  [z EXCEPT !.demand = demand]

update_demand(z, target) ==
    LET demand == /\ ~is_forced_off(z)
                  /\ target # None
                  /\ z.current_temperature # None
                  /\ z.current_temperature[1] + 1 < Tenths(target[1])
    IN  [z EXCEPT !.demand = demand]

\* a command to the valves: climate.set_hvac_mode, climate.set_temperature
Command(mode, temperature) == Some([hvac_mode |-> mode, temperature |-> temperature])

\* the zone's valves are taken to be reachable
apply_output(z0) ==
    LET z == [z0 EXCEPT !.applied = TRUE]
    IN
    IF z.battery_lock
    THEN update_demand([z EXCEPT !.sent = Command("heat", Tenths(FAILSAFE_TEMP))], None)
    ELSE IF z.maintenance_active THEN z
    ELSE LET target == effective_target(z)
             forced_off == is_forced_off(z)
             send_target ==
                 IF z.temp_sensors /\ z.current_temperature # None
                 THEN LET error == Tenths(target[1]) - z.current_temperature[1]
                          compensated_target == Tenths(target[1]) + error * 2
                      IN  Max(Tenths(5), Min(Tenths(30), compensated_target))
                 ELSE Tenths(target[1])
             commanded ==
                 IF forced_off
                 THEN [z EXCEPT !.sent = Command("off", Tenths(z.off_temp))]
                 ELSE IF target # None
                 THEN [z EXCEPT !.sent = Command("heat", send_target)]
                 ELSE z
         IN  update_demand(commanded, target)

trigger_window_hold(z) ==
    LET t == Timer("hold", WINDOW_HOLD_DURATION, None, None)
    IN  [z EXCEPT !.window_hold_until = Some(Now + WINDOW_HOLD_DURATION),
                  !.timers = Cancel(z, z.window_hold_unsub) \cup {t},
                  !.window_hold_unsub = Some(t)]

\* _trigger_window_hold._clear_hold, the callback of the hold timer
clear_hold(z) ==
    apply_output([z EXCEPT !.window_hold_unsub = None, !.window_hold_until = None])

refresh_window_state(z) == [z EXCEPT !.window_open = z.window_sensors /\ z.window]

\* temperature: the mean of the readings, None when no sensor has one;
\* dropped: _record_temperature finds the drop of an open window
update_current_temperature(z, temperature, dropped) ==
    IF temperature = None THEN z
    ELSE LET y == [z EXCEPT !.current_temperature = temperature]
         IN  IF ~z.window_sensors /\ dropped THEN trigger_window_hold(y) ELSE y

\* _run_valve_maintenance up to its first sleep
run_valve_maintenance(z) ==
    IF ~z.valve_maintenance \/ z.battery_lock THEN z
    ELSE IF hvac_action(z) = "heating" THEN z
    ELSE IF z.maintenance_active THEN z
    ELSE LET t == Timer("maintenance", 2 * VALVE_MAINTENANCE_STEP, None, None)
         IN  [z EXCEPT !.maintenance_active = TRUE,
                       !.sent = Command("heat", Tenths(VALVE_MAINTENANCE_HIGH)),
                       !.timers = z.timers \cup {t},
                       !.maintenance_task = Some(t)]

\* _run_valve_maintenance from its second sleep on
finish_valve_maintenance(z) ==
    apply_output([z EXCEPT !.maintenance_active = FALSE, !.maintenance_task = None])

\* _set_boost_override._expire, the callback of the boost timer
expire(z) == apply_output(clear_override([z EXCEPT !.boost_unsub = None]))

load_schedule_target(z, stored) ==
    [z EXCEPT !.schedule_target =
                  IF stored # None THEN stored ELSE Some(z.comfort_temp)]

\* sensed: some presence sensor of the zone reports presence
refresh_presence(z, sensed) ==
    [z EXCEPT !.presence_on =
                  /\ is_home(z) \/ is_guest_mode(z)
                  /\ z.presence_sensors
                  /\ sensed]

\* low: some battery sensor reads below BATTERY_THRESHOLD
refresh_battery_state(z, low, stored) ==
    IF low /\ ~z.battery_lock
    THEN \* the cancelled maintenance task ends in its finally clause
         [cancel_preheat([z EXCEPT !.battery_lock = TRUE])
             EXCEPT !.timers = Cancel(cancel_preheat(z), z.maintenance_task),
                    !.maintenance_task = None,
                    !.maintenance_active = FALSE]
    ELSE IF ~low /\ z.battery_lock
    THEN apply_output(load_schedule_target([z EXCEPT !.battery_lock = FALSE], stored))
    ELSE z

async_startup(z, stored, sensed, low, temperature) ==
    IF z.startup_done THEN z
    ELSE LET z1 == load_schedule_target([z EXCEPT !.startup_done = TRUE], stored)
             z2 == refresh_presence(z1, sensed)
             z3 == refresh_battery_state(refresh_window_state(z2), low, stored)
         IN  apply_output(update_current_temperature(z3, temperature, FALSE))

async_set_temperature(z, temperature) ==
    IF z.battery_lock THEN z
    ELSE LET schedule_target ==
                 \* self._schedule_target or self._off_temp
                 IF z.schedule_target = None \/ z.schedule_target[1] = 0
                 THEN z.off_temp ELSE z.schedule_target[1]
         IN  apply_output(IF temperature > schedule_target
                          THEN set_boost_override(z, temperature)
                          ELSE IF temperature < schedule_target
                          THEN set_save_override(z, temperature)
                          ELSE clear_override(z))

async_set_hvac_mode(z, off) ==
    IF z.battery_lock THEN z
    ELSE LET y == [z EXCEPT !.user_hvac_off = off]
         IN  apply_output(IF off THEN cancel_preheat(y) ELSE y)

\* seconds: the heating time the learned rate predicts, None when the rate
\* is not positive
compute_preheat_start(z, target, effective_at, seconds) ==
    IF ~(is_home(z) \/ is_guest_mode(z)) THEN None
    ELSE IF z.current_temperature = None THEN None
    ELSE IF Tenths(target) <= z.current_temperature[1] THEN None
    ELSE IF seconds = None THEN None
    ELSE Some(effective_at - seconds[1])

start_preheat(z, target, effective_at) ==
    IF Now >= effective_at THEN z
    ELSE IF z.battery_lock THEN z
    ELSE IF z.override_target # None THEN z
    ELSE IF z.current_temperature # None /\ Tenths(target) <= z.current_temperature[1]
    THEN z
    ELSE apply_output([z EXCEPT !.preheat_active = TRUE,
                                !.preheat_target = Some(target),
                                !.preheat_effective_at = Some(effective_at)])

apply_future_target(z, target) ==
    apply_output([z EXCEPT !.preheat_active = FALSE,
                           !.preheat_target = None,
                           !.preheat_effective_at = None,
                           !.pending_target = None,
                           !.pending_effective_at = None,
                           !.schedule_target = Some(target)])

schedule_future_target(z0, target, effective_at, seconds) ==
    LET z == [cancel_preheat(z0) EXCEPT !.pending_target = Some(target),
                                        !.pending_effective_at = Some(effective_at)]
        delay == effective_at - Now
    IN  IF delay <= 0
        THEN apply_output([z EXCEPT !.schedule_target = Some(target)])
        ELSE LET apply == Timer("apply", delay, Some(target), Some(effective_at))
                 armed == [z EXCEPT !.timers = z.timers \cup {apply},
                                    !.preheat_apply_unsub = Some(apply)]
                 start_at == compute_preheat_start(armed, target, effective_at, seconds)
             IN  IF start_at = None THEN armed
                 ELSE IF start_at[1] <= Now
                 THEN start_preheat(armed, target, effective_at)
                 ELSE LET start == Timer("start", start_at[1] - Now, Some(target),
                                         Some(effective_at))
                      IN  [armed EXCEPT !.timers = armed.timers \cup {start},
                                        !.preheat_start_unsub = Some(start)]

handle_schedule_unlocked(z, target, effective_at, seconds) ==
    IF effective_at # None /\ effective_at[1] > Now
    THEN schedule_future_target(z, target, effective_at[1], seconds)
    ELSE LET y == cancel_preheat([z EXCEPT !.schedule_target = Some(target)])
         IN  apply_output(IF y.override_type = Some("save") THEN clear_override(y) ELSE y)

\* effective_at: None when the event carries no effective time
handle_schedule(z, target, effective_at, seconds) ==
    IF z.battery_lock THEN z
    ELSE IF effective_at # None /\ effective_at[1] > Now
    THEN schedule_future_target(z, target, effective_at[1], seconds)
    ELSE LET y == cancel_preheat([z EXCEPT !.schedule_target = Some(target)])
         IN  apply_output(IF y.override_type = Some("save") THEN clear_override(y) ELSE y)

\* _handle_state_change after the refresh the changed entity calls for
handle_state_change(z) == apply_output(z)

\* the callback of a timer that has come due; the timer is spent
fire(z0, t) ==
    LET z == [z0 EXCEPT !.timers = z0.timers \ {t}]
    IN  CASE t.kind = "boost" -> expire(z)
          [] t.kind = "apply" ->
                 apply_future_target([z EXCEPT !.preheat_apply_unsub = None], t.target[1])
          [] t.kind = "start" ->
                 start_preheat([z EXCEPT !.preheat_start_unsub = None],
                               t.target[1], t.effective_at[1])
          [] t.kind = "hold" -> clear_hold(z)
          [] t.kind = "maintenance" -> finish_valve_maintenance(z)

\* the passage of d seconds
ShiftTime(t, d) == IF t = None THEN None ELSE Some(Max(Now, t[1] - d))

ShiftTimer(t, d) ==
    [t EXCEPT !.at = Max(Now, t.at - d),
              !.effective_at = ShiftTime(t.effective_at, d)]

ShiftHandle(h, d) == IF h = None THEN None ELSE Some(ShiftTimer(h[1], d))

ShiftZone(z, d) ==
    [z EXCEPT !.timers = {ShiftTimer(t, d) : t \in z.timers},
              !.boost_unsub = ShiftHandle(z.boost_unsub, d),
              !.preheat_start_unsub = ShiftHandle(z.preheat_start_unsub, d),
              !.preheat_apply_unsub = ShiftHandle(z.preheat_apply_unsub, d),
              !.window_hold_unsub = ShiftHandle(z.window_hold_unsub, d),
              !.maintenance_task = ShiftHandle(z.maintenance_task, d),
              !.window_hold_until = ShiftTime(z.window_hold_until, d),
              !.override_expires = ShiftTime(z.override_expires, d),
              !.preheat_effective_at = ShiftTime(z.preheat_effective_at, d),
              !.pending_effective_at = ShiftTime(z.pending_effective_at, d)]


----------------------------------------------------------------------------
(* The components beside the supervisor and the zone entity                *)

(* Thermal learning (learning.py): one _ThermalLearningBase helper of one   *)
(* zone.  kind is "heating" or "cooling"; history is the zone's list of    *)
(* samples; active is the zone's _Cycle or None.  Room temperatures are in *)
(* tenths of a degree, rates in thousandths of a degree per hour.  A       *)
(* reading of the outdoor sensor is None, a finite whole number of degrees *)
(* or a float that is not finite.  completed and rejected are history:     *)
(* the cycles ended so far that met the conditions for a sample, oldest    *)
(* first, and the number of those that did not.  store is what the Store   *)
(* holds: None, a blob without the history keys, or the zone's list as it  *)
(* was last saved.  VestaLearning keeps the dict of histories under its    *)
(* own name (_heating_history, _cooling_history) and hands the same dict   *)
(* to the helper: rebound is None while both names are bound to that one   *)
(* dict, and the zone's list in the dict VestaLearning's name is bound to  *)
(* once async_load has bound it to another dict.                           *)

Finite(value) == Some([finite |-> TRUE, value |-> value])
NotFinite == Some([finite |-> FALSE, value |-> 0])

NewHelper(kind) ==
    [kind |-> kind, history |-> << >>, active |-> None,
     completed |-> << >>, rejected |-> 0, started |-> 0,
     store |-> None, rebound |-> None, loaded |-> FALSE,
     \* the outdoor temperature of the last rate query, the rate returned
     asked |-> None, rate |-> None]

Cycle(start_temp, outdoor_temp) ==
    [start_time |-> Now, start_temp |-> start_temp, outdoor_temp |-> outdoor_temp]

async_start_cycle(h, start_temp, outdoor_temp) ==
    [h EXCEPT !.active = Some(Cycle(start_temp, outdoor_temp))]

calculate_delta(kind, start_temp, end_temp) ==
    IF kind = "heating" THEN end_temp - start_temp ELSE start_temp - end_temp

\* round(delta / hours, 3): delta in tenths of a degree, the duration in
\* seconds, the result in thousandths of a degree per hour
observed_rate(delta, seconds) == (2 * 360000 * delta + seconds) \div (2 * seconds)

prune_history_newest_first(history) ==
    IF Len(history) > MAX_HISTORY_POINTS
    THEN SubSeq(history, 1, MAX_HISTORY_POINTS)
    ELSE history

\* one sample is appended at a time: the loop runs at most once
prune_history(history) ==
    IF Len(history) > MAX_HISTORY_POINTS
    THEN SubSeq(history, Len(history) - MAX_HISTORY_POINTS + 1, Len(history))
    ELSE history

\* self._heating_history.get(zone_id, []) of VestaLearning (the cooling one
\* for the cooling helper)
zone_history(h) == IF h.rebound = None THEN h.history ELSE h.rebound[1]

Blob(history) == Some([known |-> TRUE, history |-> history])
UnknownBlob == Some([known |-> FALSE, history |-> << >>])

async_save(h) == [h EXCEPT !.store = Blob(zone_history(h))]

\* async_load: a dict read from the Store replaces the dict VestaLearning
\* names, by the stored histories or by an empty dict
async_load(h) ==
    IF h.store = None THEN h
    ELSE IF h.store[1].known
         THEN [h EXCEPT !.rebound = Some(prune_history(h.store[1].history))]
         ELSE [h EXCEPT !.rebound = Some(<< >>)]

end_cycle(h, end_temp) ==
    IF h.active = None THEN h
    ELSE LET cycle == h.active[1]
             popped == [h EXCEPT !.active = None]
             seconds == Now - cycle.start_time
             delta == calculate_delta(h.kind, cycle.start_temp, end_temp)
         IN  IF seconds <= MIN_CYCLE_SECONDS THEN popped
             ELSE IF delta <= 0 THEN popped
             ELSE IF cycle.outdoor_temp = None \/ ~cycle.outdoor_temp[1].finite THEN popped
             ELSE async_save([popped EXCEPT !.history =
                       prune_history(Append(h.history,
                           [outdoor |-> cycle.outdoor_temp[1].value,
                            rate |-> observed_rate(delta, seconds)]))])

(* Python floats.  get_rate computes with binary64: a float is            *)
(* sign * m * 2^e with m a natural number of exactly 53 bits (zero: m      *)
(* empty, e = 0), and every operation gives the exact result rounded to    *)
(* the nearest such number, ties to the even one.  m is a sequence of      *)
(* limbs of 15 bits, least significant first.  Exponent overflow and       *)
(* subnormal numbers do not occur for the values a history holds; the      *)
(* sign of a zero is not kept (no result here depends on it).              *)

\* e, once v has its value: TLC evaluates the arguments of an operator
\* where they are used, and a long chain of operations nests deeply unless
\* each intermediate result is evaluated before the next step starts.  v
\* is a tuple of the intermediate results in the order of their evaluation.
\* An intermediate result is the argument of an operator, which TLC
\* evaluates once, and not a LET definition, which it may evaluate at
\* every use.
After(v, e) == IF v = v THEN e ELSE e

LimbOf(n) == n % 32768
CarryOf(n) == n \div 32768
Limb(a, i) == IF i <= Len(a) THEN a[i] ELSE 0

\* the largest element of a finite set of naturals, 0 for the empty set
Largest(S) == IF S = {} THEN 0 ELSE CHOOSE i \in S : \A j \in S : j <= i

\* a without its leading zero limbs
BigNorm(a) == After(<<a>>, SubSeq(a, 1, Largest({i \in 1..Len(a) : a[i] # 0})))

\* n >= 0 below 2^31
BigFromInt(n) == BigNorm(<<LimbOf(n), LimbOf(CarryOf(n)), CarryOf(CarryOf(n))>>)

\* a carry enters limb i when a lower limb overflows and every limb in
\* between is full
CarryInto(s, i) == IF \E j \in 1..(i - 1) : s[j] >= 32768 /\ \A k \in (j + 1)..(i - 1) : s[k] = 32767 THEN 1 ELSE 0

\* the number whose limbs, before any carry, are the sums s
Carried(s) == After(<<s>>, BigNorm([i \in 1..Len(s) |-> LimbOf(s[i] + CarryInto(s, i))]))

AddLimbs(a, b) == Carried([i \in 1..(Max(Len(a), Len(b)) + 1) |-> Limb(a, i) + Limb(b, i)])

BigAdd(a, b) == After(<<a, b>>, AddLimbs(a, b))

\* a borrow leaves limb i when a lower limb is negative and every limb in
\* between is zero
BorrowFrom(d, i) == IF \E j \in 1..(i - 1) : d[j] < 0 /\ \A k \in (j + 1)..(i - 1) : d[k] = 0 THEN 1 ELSE 0

Wrapped(n) == IF n < 0 THEN n + 32768 ELSE n

\* the number whose limbs, before any borrow, are the differences d
Borrowed(d) == After(<<d>>, BigNorm([i \in 1..Len(d) |-> Wrapped(d[i] - BorrowFrom(d, i))]))

SubLimbs(a, b) == Borrowed([i \in 1..Len(a) |-> a[i] - Limb(b, i)])

\* a - b for a >= b
BigSub(a, b) == After(<<a, b>>, SubLimbs(a, b))

\* a against b at their most significant differing limb i, 0 for none
CmpAt(a, b, i) == IF i = 0 THEN 0 ELSE IF a[i] > b[i] THEN 1 ELSE -1

BigCmp(a, b) ==
    IF Len(a) > Len(b) THEN 1
    ELSE IF Len(a) < Len(b) THEN -1
    ELSE CmpAt(a, b, Largest({j \in 1..Len(a) : a[j] # b[j]}))

ShiftLimbs(a, k) == IF a = << >> THEN a ELSE [i \in 1..k |-> 0] \o a

MulLimbs(a, k) ==
    BigAdd(BigNorm([i \in 1..Len(a) |-> (a[i] * k) % 32768]),
           ShiftLimbs(BigNorm([i \in 1..Len(a) |-> (a[i] * k) \div 32768]), 1))

\* a * k for a limb k
BigMulSmall(a, k) == After(<<a, k>>, MulLimbs(a, k))

\* a times the third and fourth limbs of b
HighProducts(a, b) ==
    BigAdd(BigMulSmall(a, Limb(b, 3)), ShiftLimbs(BigMulSmall(a, Limb(b, 4)), 1))

\* a times the first and second limbs of b
LowProducts(a, b) ==
    BigAdd(BigMulSmall(a, Limb(b, 1)), ShiftLimbs(BigMulSmall(a, Limb(b, 2)), 1))

\* a * b for b of at most four limbs
BigMul(a, b) ==
    After(<<a, b>>, BigAdd(LowProducts(a, b), ShiftLimbs(HighProducts(a, b), 2)))

\* a * 2^k
BigShl(a, k) == ShiftLimbs(BigMulSmall(a, 2 ^ (k % 15)), k \div 15)

ShrBits(a, r) ==
    BigNorm([i \in 1..Len(a) |->
                (a[i] \div (2 ^ r)) + (Limb(a, i + 1) % (2 ^ r)) * (2 ^ (15 - r))])

\* a \div 2^k
BigShr(a, k) ==
    After(<<a>>, IF k \div 15 >= Len(a) THEN << >>
                 ELSE ShrBits(SubSeq(a, (k \div 15) + 1, Len(a)), k % 15))

\* the number of bits of a limb
BitLenSmall(n) == CHOOSE k \in 0..15 : n < 2 ^ k /\ (k = 0 \/ n >= 2 ^ (k - 1))

BigBitLen(a) == IF a = << >> THEN 0 ELSE 15 * (Len(a) - 1) + BitLenSmall(a[Len(a)])

\* bit i of a, bit 0 the least significant
BigBit(a, i) == (Limb(a, (i \div 15) + 1) \div (2 ^ (i % 15))) % 2

\* some bit of a below bit i is set
BigSticky(a, i) ==
    \/ \E j \in 1..Min(Len(a), i \div 15) : a[j] # 0
    \/ Limb(a, (i \div 15) + 1) % (2 ^ (i % 15)) # 0

BigIsOdd(a) == a # << >> /\ a[1] % 2 = 1

\* the quotient digit of r by d from their top limbs
Estimate(r, d) == Min(32767, (Limb(r, Len(d) + 1) * 32768 + Limb(r, Len(d))) \div d[Len(d)])

\* the estimate qhat, lowered until d * qhat fits r
Fitting(r, d, qhat) ==
    IF BigCmp(BigMulSmall(d, qhat), r) <= 0 THEN qhat
    ELSE IF BigCmp(BigMulSmall(d, qhat - 1), r) <= 0 THEN qhat - 1
    ELSE qhat - 2

\* the quotient digit of r by d, for r < d * 2^15 and d with its top limb
\* at least 2^14: the estimate from the top limbs is at most two too large
QuotientDigit(r, d) == After(<<r, d>>, Fitting(r, d, Estimate(r, d)))

\* the quotient q so far takes the digit, the remainder r gives up d * digit
TakeDigit(q, r, d, digit) ==
    After(<<digit>>, [q |-> BigNorm(<<digit>> \o q), r |-> BigSub(r, BigMulSmall(d, digit))])

NextDigit(q, r, d) == After(<<r>>, TakeDigit(q, r, d, QuotientDigit(r, d)))

\* one step of long division: the remainder so far takes the next limb
DivStep(prev, limb, d) == After(<<prev>>, NextDigit(prev.q, BigNorm(<<limb>> \o prev.r), d))

\* quotient and remainder by d of the limbs i.. of n, d as above
RECURSIVE DivLimbs(_, _, _)
DivLimbs(n, d, i) ==
    IF i > Len(n) - Len(d) + 1
    THEN [q |-> << >>, r |-> BigNorm(SubSeq(n, Max(i, 1), Len(n)))]
    ELSE DivStep(DivLimbs(n, d, i + 1), n[i], d)

\* the result of a division scaled by 2^s, the remainder scaled back
Unscaled(result, s) == After(<<result>>, [q |-> result.q, r |-> BigShr(result.r, s)])

\* n by d, both scaled by 2^s to bring the top limb of d to at least 2^14
ScaledDivMod(n, d, s) == Unscaled(DivLimbs(BigShl(n, s), BigShl(d, s), 1), s)

\* quotient and remainder of n by d > 0
BigDivMod(n, d) == After(<<n, d>>, ScaledDivMod(n, d, 15 - BitLenSmall(d[Len(d)])))

Float(sign, m, e) == [sign |-> sign, m |-> m, e |-> e]

FloatZero == Float(1, << >>, 0)

\* q of 53 bits, or of 54 after a carry out of the rounding
Rounded(sign, q, e) ==
    After(<<q>>, IF BigBitLen(q) = 54 THEN Float(sign, BigShr(q, 1), e + 1)
                 ELSE Float(sign, q, e))

\* q, the bits of m from bit s on, rounded by the bits below: up when the
\* first of them is set and either a later one is or q is odd
RoundUp(m, s, q) ==
    After(<<q>>, IF BigBit(m, s - 1) = 1 /\ (BigSticky(m, s - 1) \/ BigIsOdd(q))
                 THEN BigAdd(q, <<1>>)
                 ELSE q)

\* the 53 leading bits of m rounded by the bits below them
RoundBits(sign, m, e, s) == Rounded(sign, RoundUp(m, s, BigShr(m, s)), e + s)

\* sign * m * 2^e for any natural m, rounded to 53 bits
RoundFloat(sign, m, e) ==
    After(<<m>>, IF m = << >> THEN FloatZero
                 ELSE IF BigBitLen(m) <= 53
                 THEN Float(sign, BigShl(m, 53 - BigBitLen(m)), e - (53 - BigBitLen(m)))
                 ELSE RoundBits(sign, m, e, BigBitLen(m) - 53))

\* float(n) for an int n
FromInt(n) == RoundFloat(IF n < 0 THEN -1 ELSE 1, BigFromInt(IF n < 0 THEN -n ELSE n), 0)

IsZero(a) == a.m = << >>

FNeg(a) == IF IsZero(a) THEN a ELSE Float(-a.sign, a.m, a.e)

\* x * 2^e less y * 2^e with the signs sa and sb, c the order of x and y
SubAligned(sa, sb, x, y, e, c) ==
    IF c = 0 THEN FloatZero
    ELSE IF c = 1 THEN RoundFloat(sa, BigSub(x, y), e)
    ELSE RoundFloat(sb, BigSub(y, x), e)

\* sa * x * 2^e + sb * y * 2^e
AddAligned(sa, sb, x, y, e) ==
    After(<<x, y>>, IF sa = sb THEN RoundFloat(sa, BigAdd(x, y), e)
                    ELSE SubAligned(sa, sb, x, y, e, BigCmp(x, y)))

\* a + b over the common exponent e
AddAt(a, b, e) == AddAligned(a.sign, b.sign, BigShl(a.m, a.e - e), BigShl(b.m, b.e - e), e)

\* a + b for a and b other than zero
AddFloats(a, b) == AddAt(a, b, Min(a.e, b.e))

FAdd(a, b) ==
    After(<<a, b>>, IF IsZero(a) THEN b ELSE IF IsZero(b) THEN a ELSE AddFloats(a, b))

FSub(a, b) == FAdd(a, FNeg(b))

MulFloats(a, b) == RoundFloat(a.sign * b.sign, BigMul(a.m, b.m), a.e + b.e)

FMul(a, b) ==
    After(<<a, b>>, IF IsZero(a) \/ IsZero(b) THEN FloatZero ELSE MulFloats(a, b))

\* twice the quotient, its last bit set when the division leaves a
\* remainder
WithSticky(d) == After(<<d>>, BigAdd(BigShl(d.q, 1), IF d.r = << >> THEN << >> ELSE <<1>>))

\* 57 or 58 bits of the quotient, the last one set when the division
\* leaves a remainder
DivFloats(a, b) ==
    RoundFloat(a.sign * b.sign, WithSticky(BigDivMod(BigShl(a.m, 56), b.m)), a.e - b.e - 57)

\* a / b for b # 0
FDiv(a, b) == After(<<a, b>>, IF IsZero(a) THEN FloatZero ELSE DivFloats(a, b))

\* -1, 0 or 1 as a is negative, zero or positive
SignOf(a) == IF IsZero(a) THEN 0 ELSE a.sign

\* |a| against |b| for a and b other than zero
CmpMagnitude(a, b) == IF a.e > b.e THEN 1 ELSE IF a.e < b.e THEN -1 ELSE BigCmp(a.m, b.m)

\* a < b
FLess(a, b) ==
    IF SignOf(a) # SignOf(b) THEN SignOf(a) < SignOf(b)
    ELSE IF SignOf(a) = 0 THEN FALSE
    ELSE IF SignOf(a) = 1 THEN CmpMagnitude(a, b) = -1
    ELSE CmpMagnitude(a, b) = 1

\* min(a, b) and max(a, b) of Python: the first argument unless the second
\* is smaller (larger)
FMin(a, b) == After(<<a, b>>, IF FLess(b, a) THEN b ELSE a)
FMax(a, b) == After(<<a, b>>, IF FLess(a, b) THEN b ELSE a)

\* the float a decimal literal n / scale denotes
FloatOf(n, scale) == FDiv(FromInt(n), FromInt(scale))

DEFAULT_RATE == FloatOf(15, 10)
DEFAULT_COOLING_RATE == FloatOf(5, 10)
RATE_MIN == FloatOf(1, 10)
RATE_MAX == FromInt(5)

\* a history point as floats: the outdoor temperature is stored in tenths
\* of a degree, the rate in thousandths of a degree per hour
history_points(history) ==
    [i \in 1..Len(history) |->
        [x |-> FloatOf(history[i].outdoor, 10), y |-> FloatOf(history[i].rate, 1000)]]

\* sum(...) over the first i of xs, left to right from 0, each addition
\* rounded (the sum of Python before 3.12; later versions carry a
\* correction term, which gives the same sums for the histories with
\* equal rates used below)
RECURSIVE SumTo(_, _)
SumTo(xs, i) == IF i = 0 THEN FloatZero ELSE FAdd(SumTo(xs, i - 1), xs[i])

FSum(xs) == After(<<xs>>, SumTo(xs, Len(xs)))

\* the line of a slope: intercept = (sum_y - (slope * sum_x)) / n
Line(n, sum_x, sum_y, slope) ==
    After(<<slope>>, Some([slope |-> slope, intercept |-> FDiv(FSub(sum_y, FMul(slope, sum_x)), n)]))

\* the slope and intercept for a denominator other than zero
Regression(n, sum_x, sum_y, sum_xy, denominator) ==
    Line(n, sum_x, sum_y, FDiv(FSub(FMul(n, sum_xy), FMul(sum_x, sum_y)), denominator))

\* if denominator == 0: return None, None
Solve(n, sum_x, sum_y, sum_xy, denominator) ==
    After(<<denominator>>, IF IsZero(denominator) THEN None
                           ELSE Regression(n, sum_x, sum_y, sum_xy, denominator))

\* denominator = (n * sum_x2) - (sum_x**2), x ** 2 taken as x * x rounded
Fit(n, sum_x, sum_y, sum_xy, sum_x2) ==
    After(<<sum_x, sum_y, sum_xy, sum_x2>>,
          Solve(n, sum_x, sum_y, sum_xy, FSub(FMul(n, sum_x2), FMul(sum_x, sum_x))))

linear_regression(points) ==
    After(<<points>>,
          IF Len(points) = 0 THEN None
          ELSE Fit(FromInt(Len(points)),
                   FSum([i \in 1..Len(points) |-> points[i].x]),
                   FSum([i \in 1..Len(points) |-> points[i].y]),
                   FSum([i \in 1..Len(points) |-> FMul(points[i].x, points[i].y)]),
                   FSum([i \in 1..Len(points) |-> FMul(points[i].x, points[i].x)])))

\* max(RATE_MIN, min(RATE_MAX, (slope * outdoor_temp) + intercept))
Predicted(line, outdoor_temp) ==
    After(<<line, outdoor_temp>>,
          IF line = None THEN None
          ELSE Some(FMax(RATE_MIN, FMin(RATE_MAX, FAdd(FMul(line[1].slope, outdoor_temp), line[1].intercept)))))

predict_rate(history, outdoor_temp) ==
    IF Len(history) < MIN_HISTORY_POINTS THEN None
    ELSE Predicted(linear_regression(history_points(history)), outdoor_temp)

\* the predicted rate if there is one
RateOr(rate, default) == After(<<rate>>, IF rate # None THEN rate[1] ELSE default)

\* outdoor_temp: None, NotFinite or Finite(tenths of a degree)
get_rate(h, outdoor_temp) ==
    IF outdoor_temp = None \/ ~outdoor_temp[1].finite THEN DEFAULT_RATE
    ELSE RateOr(predict_rate(zone_history(h), FloatOf(outdoor_temp[1].value, 10)), DEFAULT_RATE)

get_cooling_rate(h, outdoor_temp) ==
    IF outdoor_temp = None \/ ~outdoor_temp[1].finite THEN DEFAULT_COOLING_RATE
    ELSE RateOr(predict_rate(zone_history(h), FloatOf(outdoor_temp[1].value, 10)), DEFAULT_COOLING_RATE)

ShiftHelper(h, d) ==
    IF h.active = None THEN h
    ELSE [h EXCEPT !.active = Some([h.active[1] EXCEPT !.start_time = @ - d])]

NewLearning == NewHelper("heating")

(* WindowManager (manager.py).  state is one of the four window states;   *)
(* sensor is what the window sensor of the zone reads (hass.states).  The  *)
(* temperatures recorded for the inference are in hundredths of a degree,  *)
(* window_threshold in hundredths of a degree per minute.  A sample of     *)
(* _temp_history is its timestamp and its temperature.  entity is the      *)
(* _window_history list of a VestaClimate that is given the same readings  *)
(* (climate.py, _record_temperature).  seen, expected and since are        *)
(* history: the readings of the last minutes, each with whether it came    *)
(* after the last hold the manager triggered; what the last reading called *)
(* for; the seconds since a hold was last triggered, None once its timer   *)
(* has fired; whether the last reading triggered a hold during a hold;     *)
(* whether the last step was the callback of the hold timer.               *)

WindowStates == {"monitoring", "sensor_open", "hold", "sensor_open_hold"}

window_open(state) == state \in {"sensor_open", "sensor_open_hold"}

hold_active(state) == state \in {"hold", "sensor_open_hold"}

on_sensor_change(state, open) ==
    CASE state = "monitoring" -> IF open THEN "sensor_open" ELSE state
      [] state = "sensor_open" -> IF open THEN state ELSE "monitoring"
      [] state = "hold" -> IF open THEN "sensor_open_hold" ELSE state
      [] state = "sensor_open_hold" -> IF open THEN state ELSE "hold"

on_hold_started(state) ==
    CASE state = "monitoring" -> "hold"
      [] state = "sensor_open" -> "sensor_open_hold"
      [] OTHER -> state

on_hold_cleared(state) ==
    CASE state = "hold" -> "monitoring"
      [] state = "sensor_open_hold" -> "sensor_open"
      [] OTHER -> state

WindowManager(window_sensors, window_threshold) ==
    [window_sensors |-> window_sensors,
     window_threshold |-> window_threshold,
     state |-> "monitoring",
     window_hold_until |-> None,
     window_hold_unsub |-> None,
     temp_history |-> << >>,
     timers |-> {},
     sensor |-> FALSE,
     entity |-> [window_history |-> << >>, triggered |-> FALSE],
     triggered |-> FALSE,
     seen |-> << >>,
     expected |-> [manager |-> FALSE, entity |-> FALSE],
     since |-> None,
     restarted |-> FALSE,
     cleared |-> FALSE]

is_hold_active(w) ==
    IF ~hold_active(w.state) \/ w.window_hold_until = None THEN FALSE
    ELSE Now < w.window_hold_until[1]

window_is_forced_off(w) == window_open(w.state) \/ is_hold_active(w)

\* WindowManager.refresh_state
window_refresh_state(w) ==
    [w EXCEPT !.state = on_sensor_change(w.state, w.window_sensors /\ w.sensor)]

window_trigger_window_hold_stacking(w) ==
    LET t == Timer("hold", WINDOW_HOLD_DURATION, None, None)
    IN  [w EXCEPT !.window_hold_until = Some(Now + WINDOW_HOLD_DURATION),
                  !.state = on_hold_started(w.state),
                  !.timers = w.timers \cup {t},
                  !.window_hold_unsub = Some(t)]

window_trigger_window_hold(w) ==
    LET t == Timer("hold", WINDOW_HOLD_DURATION, None, None)
    IN  [w EXCEPT !.window_hold_until = Some(Now + WINDOW_HOLD_DURATION),
                  !.state = on_hold_started(w.state),
                  !.timers = Cancel(w, w.window_hold_unsub) \cup {t},
                  !.window_hold_unsub = Some(t)]

\* WindowManager._trigger_window_hold._clear_hold, the callback of the timer
window_clear_hold(w, t) ==
    [w EXCEPT !.timers = w.timers \ {t},
              !.window_hold_unsub = None,
              !.window_hold_until = None,
              !.state = on_hold_cleared(w.state)]

Sample(temperature) == [ts |-> Now, temp |-> temperature]

Recent(history) == SelectSeq(history, LAMBDA s : s.ts >= Now - TEMP_HISTORY_SECONDS)

\* drop >= 0.5 or drop / minutes >= threshold, minutes being seconds / 60
Dropped(oldest, temperature, threshold) ==
    LET seconds == Now - oldest.ts
        drop == oldest.temp - temperature
    IN  /\ seconds > 0
        /\ drop >= WINDOW_DROP \/ drop * SECONDS_PER_MINUTE >= threshold * seconds

record_temperature_unpruned(w, temperature) ==
    LET history == Append(w.temp_history, Sample(temperature))
    IN  IF Len(history) < 2
        THEN [w EXCEPT !.temp_history = history, !.triggered = FALSE]
        ELSE IF Dropped(history[1], temperature, w.window_threshold)
        THEN [window_trigger_window_hold(w) EXCEPT !.temp_history = << >>,
                                                   !.triggered = TRUE]
        ELSE [w EXCEPT !.temp_history = history, !.triggered = FALSE]

record_temperature(w, temperature) ==
    LET history == Recent(Append(w.temp_history, Sample(temperature)))
    IN  IF Len(history) < 2
        THEN [w EXCEPT !.temp_history = history, !.triggered = FALSE]
        ELSE IF Dropped(history[1], temperature, w.window_threshold)
        THEN [window_trigger_window_hold(w) EXCEPT !.temp_history = << >>,
                                                   !.triggered = TRUE]
        ELSE [w EXCEPT !.temp_history = history, !.triggered = FALSE]

\* VestaClimate._record_temperature on the entity's own list
entity_record_temperature(e, temperature, threshold) ==
    LET history == Recent(Append(e.window_history, Sample(temperature)))
    IN  [window_history |-> history,
         triggered |-> /\ Len(history) >= 2
                       /\ Dropped(history[1], temperature, threshold)]

\* a sample older than MaxSampleAge is kept at that age
ShiftSamples(history, d) ==
    [i \in 1..Len(history) |-> [history[i] EXCEPT !.ts = Max(@ - d, Now - MaxSampleAge)]]

NewWindowManager == WindowManager(FALSE, 20)

(* PresenceManager (manager.py).  states holds what hass.states has for    *)
(* the entities the manager reads: the home zone, the guest switch, a      *)
(* distance sensor, a binary presence sensor and a presence sensor that    *)
(* names an area; None when hass has no state for the entity.  A state is  *)
(* its text, or "number" with the value float() gives for the text, in     *)
(* tenths.  Distances and the threshold are in tenths of a metre.          *)
(* entity_presence_on is the _presence_on of a VestaClimate that reads the *)
(* same states (climate.py, _refresh_presence).  previous and changed are  *)
(* history: presence_on before the last refresh, the entity whose state    *)
(* changed last.                                                           *)

HassText(text) == Some([state |-> text, value |-> 0])
HassNumber(tenths) == Some([state |-> "number", value |-> tenths])

\* float(state.state): None for a state without a number
state_to_float(state) ==
    IF state = None THEN None
    ELSE IF state[1].state \in {"unknown", "unavailable"} THEN None
    ELSE IF state[1].state = "number" THEN Finite(state[1].value)
    ELSE IF state[1].state = "nan" THEN NotFinite
    ELSE None

\* int(x) of a float in tenths: towards zero
Truncated(tenths) == IF tenths >= 0 THEN tenths \div 10 ELSE -((-tenths) \div 10)

\* "Bedroom" is the area name, "bedroom" its slug
Casefold(text) == IF text = "Bedroom" THEN "bedroom" ELSE text

PresenceManager(distance_sensors, binary_sensors, area_sensors) ==
    [distance_sensors |-> distance_sensors,
     binary_sensors |-> binary_sensors,
     area_sensors |-> area_sensors,
     bermuda_threshold |-> DEFAULT_BERMUDA_THRESHOLD,
     area_name |-> "Bedroom",
     slug |-> "bedroom",
     presence_on |-> FALSE,
     entity_presence_on |-> FALSE,
     states |-> [home |-> None, guest |-> None, distance |-> None,
                 motion |-> None, tracker |-> None],
     previous |-> FALSE,
     changed |-> None]

pm_is_home(p) ==
    LET value == state_to_float(p.states.home)
    IN  IF value = None THEN FALSE
        ELSE IF ~value[1].finite THEN FALSE
        ELSE Truncated(value[1].value) > 0

pm_is_guest_mode(p) == p.states.guest # None /\ p.states.guest[1].state = "on"

binary_is_present(state) == state[1].state \in {"on", "home"}

proximity_is_present_without_hysteresis(p, state, previous) ==
    LET value == state_to_float(state)
    IN  IF value = None \/ ~value[1].finite THEN FALSE
        ELSE value[1].value < p.bermuda_threshold

proximity_is_present(p, state, previous) ==
    LET value == state_to_float(state)
        hysteresis == IF previous THEN PRESENCE_HYSTERESIS ELSE 0
    IN  IF value = None \/ ~value[1].finite THEN FALSE
        ELSE value[1].value < p.bermuda_threshold + hysteresis

area_is_present(p, state) ==
    IF state[1].state \in {"unknown", "unavailable"} THEN FALSE
    ELSE Casefold(state[1].state) \in {Casefold(p.area_name), Casefold(p.slug)}

\* the entities refresh_state goes through
iter_state_entities(p) ==
    (IF p.distance_sensors THEN {"distance"} ELSE {})
        \cup (IF p.binary_sensors THEN {"motion"} ELSE {})
        \cup (IF p.area_sensors THEN {"tracker"} ELSE {})

is_active_state_ungated(p, entity_id, state, context) ==
    CASE entity_id = "distance" -> proximity_is_present(p, state, context.previous)
      [] entity_id = "motion" -> binary_is_present(state)
      [] entity_id = "tracker" -> area_is_present(p, state)

is_active_state(p, entity_id, state, context) ==
    IF ~context.zone_home THEN FALSE
    ELSE CASE entity_id = "distance" -> proximity_is_present(p, state, context.previous)
           [] entity_id = "motion" -> binary_is_present(state)
           [] entity_id = "tracker" -> area_is_present(p, state)

pm_refresh_state(p) ==
    LET previous == p.presence_on
        context == [previous |-> previous,
                    zone_home |-> pm_is_home(p) \/ pm_is_guest_mode(p)]
        active == \E entity_id \in iter_state_entities(p) :
                      /\ p.states[entity_id] # None
                      /\ is_active_state(p, entity_id, p.states[entity_id], context)
    IN  [p EXCEPT !.presence_on = active]

\* VestaClimate._refresh_presence on the same states
entity_refresh_presence(p) ==
    LET zone_home == pm_is_home(p) \/ pm_is_guest_mode(p)
        previous_presence == p.entity_presence_on
        hysteresis == IF previous_presence THEN PRESENCE_HYSTERESIS ELSE 0
        value == state_to_float(p.states.distance)
    IN  [p EXCEPT !.entity_presence_on =
            IF ~zone_home THEN FALSE
            ELSE IF /\ p.distance_sensors
                    /\ value # None
                    /\ value[1].finite
                    /\ value[1].value < p.bermuda_threshold + hysteresis
            THEN TRUE
            ELSE IF /\ p.binary_sensors
                    /\ p.states.motion # None
                    /\ p.states.motion[1].state \in {"on", "home"}
            THEN TRUE
            ELSE /\ p.area_sensors
                 /\ p.states.tracker # None
                 /\ p.states.tracker[1].state \notin {"unknown", "unavailable"}
                 /\ Casefold(p.states.tracker[1].state)
                        \in {Casefold(p.area_name), Casefold(p.slug)}]

NewPresenceManager == PresenceManager(FALSE, FALSE, FALSE)
(* domain/climate.py.  Temperatures are in tenths of a degree, a heating  *)
(* rate in thousandths of a degree per hour, effective_at and the result   *)
(* of compute_preheat_start in seconds from now.  calc holds the last call *)
(* of the harness: the function, its arguments, its result, and what the   *)
(* zone entity computes from the same values with its own copy of the      *)
(* arithmetic (climate.py, _apply_output and _compute_preheat_start).      *)

TemperatureCompensation(error, compensated_target, clamped_target) ==
    [error |-> error, compensated_target |-> compensated_target,
     clamped_target |-> clamped_target]

calculate_temperature_compensation_unclamped(target_temp, current_temp, gain, min_temp, max_temp) ==
    LET error == target_temp - current_temp
        compensated == target_temp + (error * gain)
    IN  TemperatureCompensation(error, compensated, compensated)

calculate_temperature_compensation(target_temp, current_temp, gain, min_temp, max_temp) ==
    LET error == target_temp - current_temp
        compensated == target_temp + (error * gain)
        clamped == Max(min_temp, Min(max_temp, compensated))
    IN  TemperatureCompensation(error, compensated, clamped)

\* ((target - current) / rate) * 3600 with the units above; the harness
\* uses rates that divide it, so that the quotient is the value timedelta
\* holds
preheat_seconds(target_temp, current_temp, heating_rate) ==
    (360000 * (target_temp - current_temp)) \div heating_rate

domain_compute_preheat_start_always_allowed(current_temp, target_temp, effective_at, heating_rate, allow_preheat) ==
    IF current_temp = None THEN None
    ELSE IF target_temp <= current_temp[1] THEN None
    ELSE IF heating_rate <= 0 THEN None
    ELSE LET seconds == preheat_seconds(target_temp, current_temp[1], heating_rate)
         IN  IF seconds <= 0 THEN None ELSE Some(effective_at - seconds)

domain_compute_preheat_start(current_temp, target_temp, effective_at, heating_rate, allow_preheat) ==
    IF ~allow_preheat THEN None
    ELSE IF current_temp = None THEN None
    ELSE IF target_temp <= current_temp[1] THEN None
    ELSE IF heating_rate <= 0 THEN None
    ELSE LET seconds == preheat_seconds(target_temp, current_temp[1], heating_rate)
         IN  IF seconds <= 0 THEN None ELSE Some(effective_at - seconds)

\* a started zone somebody is home in (or not), holding a schedule target
\* and a room temperature
ZoneHolding(target, current_temp, home) ==
    [NewZone(FALSE) EXCEPT !.startup_done = TRUE,
                           !.home = home,
                           !.schedule_target = Some(target),
                           !.current_temperature = current_temp]

Calculation(function, target, current_temp, effective_at, heating_rate, allow_preheat) ==
    [function |-> function,
     target |-> target,
     current_temp |-> current_temp,
     effective_at |-> effective_at,
     heating_rate |-> heating_rate,
     allow_preheat |-> allow_preheat,
     compensation |-> None,
     start_at |-> None,
     sent |-> None,
     entity_start_at |-> None]

NoCalculation == None

\* no learning cycle of the zone is active, no output application is
\* under way
NoCycles == [heating |-> None, cooling |-> None]

OutputsAtRest ==
    /\ tasks = {}
    /\ cycles = NoCycles
    /\ overlapped = FALSE

component_vars == <<learning, wm, pm, calc, tasks, cycles, overlapped>>

ComponentsAtRest ==
    /\ learning = NewLearning
    /\ wm = NewWindowManager
    /\ pm = NewPresenceManager
    /\ calc = NoCalculation
    /\ OutputsAtRest

Init ==
    /\ \E mc \in MinCycleChoices : coord = NewCoordinator(mc)
    /\ call = None
    /\ waiters = << >>
    /\ windows = 0
    /\ latest = << >>
    /\ ran = None
    /\ master_warnings = 0
    /\ failures = 0
    /\ hold = None
    /\ direct = None
    /\ last = None
    /\ budget = MaxRetryAttempts
    /\ climate = NewZone(FALSE)
    /\ arb = NoArbitration
    /\ did = None
    /\ ComponentsAtRest

\* the supervisor with one reporting zone, every driver outcome and the
\* clock observed at the deadlines
Next ==
    \/ \E d \in BOOLEAN, i \in BOOLEAN : UpdateDemand("zone1", d, i)
    \/ Flush
    \/ Retry
    \/ Recalculate
    \/ ForceOff
    \/ RunWaiter
    \/ \E o \in DriverOutcomes, w \in BOOLEAN : CallReturns(o, w)
    \/ \E d \in DeadlineSteps(coord) : Tick(d)

Spec == Init /\ [][Next]_vars

\* the supervisor with every zone reporting, a driver that succeeds and the
\* clock observed every second of a debounce window
NextDemand ==
    \/ \E z \in Zones, d \in BOOLEAN, i \in BOOLEAN : UpdateDemand(z, d, i)
    \/ Flush
    \/ Retry
    \/ Recalculate
    \/ ForceOff
    \/ RunWaiter
    \/ \E w \in BOOLEAN : CallReturns("ok", w)
    \/ \E d \in TickSteps(coord) : Tick(d)

SpecDemand == Init /\ [][NextDemand]_vars

\* the supervisor followed through long runs of failed attempts: immediate
\* updates of one zone, every driver outcome, the clock observed at the
\* deadlines
InitBackoff ==
    /\ \E mc \in MinCycleChoices : coord = NewCoordinator(mc)
    /\ call = None
    /\ waiters = << >>
    /\ windows = 0
    /\ latest = << >>
    /\ ran = None
    /\ master_warnings = 0
    /\ failures = 0
    /\ hold = None
    /\ direct = None
    /\ last = None
    /\ budget = MaxBackoffAttempts
    /\ climate = NewZone(FALSE)
    /\ arb = NoArbitration
    /\ did = None
    /\ ComponentsAtRest

NextBackoff ==
    \/ \E d \in BOOLEAN : UpdateDemand("zone1", d, TRUE)
    \/ Retry
    \/ Recalculate
    \/ RunWaiter
    \/ \E o \in DriverOutcomes, w \in BOOLEAN : CallReturns(o, w)
    \/ \E d \in DeadlineSteps(coord) : Tick(d)

SpecBackoff == InitBackoff /\ [][NextBackoff]_vars

----------------------------------------------------------------------------
(* The CircuitBreaker on its own: its public methods called directly, in  *)
(* any order and at any time.                                              *)

BreakerCanAttempt ==
    LET r == can_attempt(coord.breaker, Now)
    IN  /\ coord' = [coord EXCEPT !.breaker = r.b]
        /\ direct' = Some([op |-> "can_attempt", ok |-> r.ok,
                           from |-> coord.breaker.state])
        /\ UNCHANGED <<call, waiters, windows, latest, ran, master_warnings,
                       failures, hold, last, budget, climate, arb, did, learning, wm, pm, calc, tasks, cycles, overlapped>>

BreakerRecordSuccess ==
    /\ coord' = [coord EXCEPT !.breaker = record_success(@)]
    /\ direct' = Some([op |-> "record_success", ok |-> TRUE,
                       from |-> coord.breaker.state])
    /\ failures' = 0
    /\ UNCHANGED <<call, waiters, windows, latest, ran, master_warnings, hold,
                   last, budget, climate, arb, did, learning, wm, pm, calc, tasks, cycles, overlapped>>

BreakerRecordFailure ==
    /\ coord' = [coord EXCEPT !.breaker = record_failure(@, Now)]
    /\ direct' = Some([op |-> "record_failure", ok |-> TRUE,
                       from |-> coord.breaker.state])
    /\ failures' = Counted(failures)
    /\ UNCHANGED <<call, waiters, windows, latest, ran, master_warnings, hold,
                   last, budget, climate, arb, did, learning, wm, pm, calc, tasks, cycles, overlapped>>

\* the clock advances by one second or to the second before the deadline
BreakerSteps == {1, CIRCUIT_BREAKER_RESET_SECONDS - 1}

BreakerTick(d) ==
    /\ coord.breaker.opened_until # None
    /\ coord.breaker.opened_until[1] > Now
    /\ coord' = Shift(coord, d)
    /\ direct' = None
    /\ UNCHANGED <<call, waiters, windows, latest, ran, master_warnings,
                   failures, hold, last, budget, climate, arb, did, learning, wm, pm, calc, tasks, cycles, overlapped>>

NextBreaker ==
    \/ BreakerCanAttempt
    \/ BreakerRecordSuccess
    \/ BreakerRecordFailure
    \/ \E d \in BreakerSteps : BreakerTick(d)

SpecBreaker == Init /\ [][NextBreaker]_vars

----------------------------------------------------------------------------
(* The zone entity: its entry points, its timers and the clock             *)

ZoneTemps == {0, 5, 21, 35}
ScheduleTemps == {0, 21}
StoredTargets == {None, Some(5)}
CurrentTemps == {Some(180)}
FutureDelays == {3600}
HeatingSeconds == {None, Some(1800), Some(7200)}
FreeSteps == {1800}

CoordinatorAtRest ==
    /\ coord = NewCoordinator(0)
    /\ call = None
    /\ waiters = << >>
    /\ windows = 0
    /\ latest = << >>
    /\ ran = None
    /\ master_warnings = 0
    /\ failures = 0
    /\ hold = None
    /\ direct = None
    /\ last = None
    /\ budget = MaxRetryAttempts

coordinator_vars == <<coord, call, waiters, windows, latest, ran, master_warnings,
                      failures, hold, direct, last, budget>>

\* the entity as a handler finds it
Entered == [climate EXCEPT !.applied = FALSE, !.sent = None]

ZoneStep(z, label) ==
    /\ climate' = z
    /\ did' = Some(label)
    /\ UNCHANGED <<coordinator_vars, arb, component_vars>>

Startup(stored, sensed, low, temperature) ==
    /\ ~climate.startup_done
    /\ ZoneStep(async_startup(Entered, stored, sensed, low, temperature),
                [op |-> "async_startup"])

SetTemperature(temperature) ==
    ZoneStep(async_set_temperature(Entered, temperature),
             [op |-> "async_set_temperature", temperature |-> temperature])

HandleSchedule(target, effective_at, seconds) ==
    ZoneStep(handle_schedule(Entered, target, effective_at, seconds),
             [op |-> "_handle_schedule", target |-> target,
              future |-> effective_at # None /\ effective_at[1] > Now])

SetHvacMode(off) ==
    ZoneStep(async_set_hvac_mode(Entered, off), [op |-> "async_set_hvac_mode", off |-> off])

\* _poll_calendar finding an active event with this target
PollCalendar(target) ==
    /\ ~climate.battery_lock
    /\ climate.schedule_target # Some(target)
    /\ ZoneStep(apply_future_target(Entered, target),
                [op |-> "_poll_calendar", target |-> target])

\* _handle_state_change for a battery sensor
BatteryChange(low, stored) ==
    ZoneStep(handle_state_change(refresh_battery_state(Entered, low, stored)),
             [op |-> "battery"])

\* _handle_state_change for a presence sensor, the guest switch or climate.home
PresenceChange(home, guest, sensed) ==
    ZoneStep(handle_state_change(
                 refresh_presence([Entered EXCEPT !.home = home, !.guest = guest], sensed)),
             [op |-> "presence"])

FireTimer(t) ==
    /\ t \in climate.timers
    /\ t.at <= Now
    /\ ZoneStep(fire(Entered, t), [op |-> "timer", kind |-> t.kind, target |-> t.target])

ZoneTickSteps(z) ==
    {d \in {t.at : t \in z.timers} \cup FreeSteps :
        /\ d > 0
        /\ \A t \in z.timers : d <= t.at}

ZoneTick(d) ==
    /\ d \in ZoneTickSteps(climate)
    /\ climate' = ShiftZone(climate, d)
    /\ did' = None
    /\ UNCHANGED <<coordinator_vars, arb, component_vars>>

InitZone ==
    /\ coord = NewCoordinator(0)
    /\ call = None
    /\ waiters = << >>
    /\ windows = 0
    /\ latest = << >>
    /\ ran = None
    /\ master_warnings = 0
    /\ failures = 0
    /\ hold = None
    /\ direct = None
    /\ last = None
    /\ budget = MaxRetryAttempts
    /\ \E ps \in BOOLEAN : climate = NewZone(ps)
    /\ arb = NoArbitration
    /\ did = None
    /\ ComponentsAtRest

NextZone ==
    \/ \E stored \in StoredTargets, sensed \in BOOLEAN, low \in BOOLEAN,
          temperature \in CurrentTemps :
           Startup(stored, sensed, low, temperature)
    \/ \E temperature \in ZoneTemps : SetTemperature(temperature)
    \* HVAC mode requests are followed on a battery-locked zone only
    \/ \E off \in BOOLEAN : climate.battery_lock /\ SetHvacMode(off)
    \/ \E target \in ScheduleTemps, effective_at \in {None} \cup {Some(d) : d \in FutureDelays},
          seconds \in HeatingSeconds :
           HandleSchedule(target, effective_at, seconds)
    \/ \E target \in ScheduleTemps : PollCalendar(target)
    \/ \E low \in BOOLEAN, stored \in StoredTargets : BatteryChange(low, stored)
    \/ \E home \in BOOLEAN, guest \in BOOLEAN, sensed \in BOOLEAN :
           PresenceChange(home, guest, sensed)
    \/ \E t \in climate.timers : FireTimer(t)
    \/ \E d \in ZoneTickSteps(climate) : ZoneTick(d)

SpecZone == InitZone /\ [][NextZone]_vars

----------------------------------------------------------------------------
(* The zone entity: its output, its demand and what forces it off          *)

OutputTemps == {5, 21}
RoomTemps == {None, Some(208), Some(209)}
\* the master switch entity: no such entity, or its state
SwitchStates == {None, Some("on"), Some("off"), Some("unavailable"), Some("unknown")}

\* _handle_state_change for a temperature sensor
TemperatureChange(temperature, dropped) ==
    ZoneStep(handle_state_change(update_current_temperature(Entered, temperature, dropped)),
             [op |-> "temperature"])

\* _handle_state_change for the master switch
MasterChange(state) ==
    /\ climate.master # state
    /\ ZoneStep(handle_state_change([Entered EXCEPT !.master = state]), [op |-> "master"])

\* _handle_state_change for a window sensor
WindowChange(open) ==
    /\ climate.window_sensors
    /\ ZoneStep(handle_state_change(refresh_window_state([Entered EXCEPT !.window = open])),
                [op |-> "window"])

\* _handle_maintenance_time on the maintenance day, no maintenance task running
StartMaintenance ==
    /\ climate.startup_done
    /\ climate.maintenance_task = None
    /\ ZoneStep(run_valve_maintenance(Entered), [op |-> "_run_valve_maintenance"])

\* the behaviours followed have one timer pending at a time
Drops == IF climate.timers = {} THEN BOOLEAN ELSE {FALSE}

InitOutput ==
    /\ CoordinatorAtRest
    /\ \E ts \in BOOLEAN, ws \in BOOLEAN :
           climate = [NewZone(FALSE) EXCEPT !.temp_sensors = ts, !.window_sensors = ws,
                                            !.home = TRUE]
    /\ arb = NoArbitration
    /\ did = None
    /\ ComponentsAtRest

NextOutput ==
    \/ \E low \in BOOLEAN, temperature \in RoomTemps :
           Startup(None, FALSE, low, temperature)
    \/ \E temperature \in OutputTemps :
           climate.startup_done /\ SetTemperature(temperature)
    \/ \E off \in BOOLEAN : SetHvacMode(off)
    \/ HandleSchedule(DEFAULT_COMFORT_TEMP, None, None)
    \/ \E low \in BOOLEAN : BatteryChange(low, None)
    \/ \E temperature \in RoomTemps, dropped \in Drops :
           TemperatureChange(temperature, dropped)
    \/ \E state \in SwitchStates : MasterChange(state)
    \/ \E open \in BOOLEAN : WindowChange(open)
    \/ climate.timers = {} /\ StartMaintenance
    \/ \E t \in climate.timers : FireTimer(t)
    \/ \E d \in ZoneTickSteps(climate) : ZoneTick(d)

SpecOutput == InitOutput /\ [][NextOutput]_vars

----------------------------------------------------------------------------
(* Thermal learning: cycles started, ended and timed                       *)

CycleTemps == {180, 190}
CycleSteps == {900}
MaxCycleSeconds == {1800}

zone_vars == <<climate, arb, did>>

\* the cycle about to end meets the conditions for a sample
Qualifies(h, end_temp) ==
    /\ h.active # None
    /\ Now - h.active[1].start_time > MIN_CYCLE_SECONDS
    /\ calculate_delta(h.kind, h.active[1].start_temp, end_temp) > 0
    /\ h.active[1].outdoor_temp # None
    /\ h.active[1].outdoor_temp[1].finite

\* the outdoor sensor reads the number of the cycle, nothing, or no number
OutdoorReadings(h) == {None, NotFinite, Finite(h.started)}

\* a cycle started over a running one replaces it: the running one gives no
\* sample
StartCycle(start_temp, outdoor_temp) ==
    /\ learning.started < MaxCycles
    /\ learning.active = None \/ learning.rejected < MaxRejected
    /\ learning' = [async_start_cycle(learning, start_temp, outdoor_temp)
                        EXCEPT !.started = @ + 1,
                               !.rejected = IF learning.active = None THEN @ ELSE @ + 1]
    /\ UNCHANGED <<coordinator_vars, zone_vars, wm, pm, calc, tasks, cycles, overlapped>>

EndCycle(end_temp) ==
    /\ learning.active # None
    /\ Qualifies(learning, end_temp) \/ learning.rejected < MaxRejected
    /\ learning' = [end_cycle(learning, end_temp)
                        EXCEPT !.completed =
                                   IF Qualifies(learning, end_temp)
                                   THEN Append(@, learning.active[1].outdoor_temp[1].value)
                                   ELSE @,
                               !.rejected =
                                   IF Qualifies(learning, end_temp) THEN @ ELSE @ + 1]
    /\ UNCHANGED <<coordinator_vars, zone_vars, wm, pm, calc, tasks, cycles, overlapped>>

LearningTick(d) ==
    /\ learning.active # None
    /\ \E cap \in MaxCycleSeconds : Now - learning.active[1].start_time + d <= cap
    /\ learning' = ShiftHelper(learning, d)
    /\ UNCHANGED <<coordinator_vars, zone_vars, wm, pm, calc, tasks, cycles, overlapped>>

InitLearning ==
    /\ CoordinatorAtRest
    /\ climate = NewZone(FALSE)
    /\ arb = NoArbitration
    /\ did = None
    /\ \E kind \in {"heating", "cooling"} : learning = NewHelper(kind)
    /\ wm = NewWindowManager
    /\ pm = NewPresenceManager
    /\ calc = NoCalculation
    /\ OutputsAtRest

NextLearning ==
    \/ \E start_temp \in CycleTemps, outdoor_temp \in OutdoorReadings(learning) :
           StartCycle(start_temp, outdoor_temp)
    \/ \E end_temp \in CycleTemps : EndCycle(end_temp)
    \/ \E d \in CycleSteps : LearningTick(d)

SpecLearning == InitLearning /\ [][NextLearning]_vars

----------------------------------------------------------------------------
(* The window manager: sensor changes, temperature readings, the hold      *)

WindowThresholds == {20, 25}
WindowTemps == {1950, 1975, 2000}
InferenceSteps == {60}

\* the readings the decision may look at: those of the last three minutes,
\* for the manager those that came after the hold it last triggered
InWindow(seen, fresh_only) ==
    SelectSeq(seen, LAMBDA s : /\ s.ts >= Now - TEMP_HISTORY_SECONDS
                               /\ fresh_only => s.fresh)

HoldExpected(seen, temperature, threshold, fresh_only) ==
    LET window == InWindow(seen, fresh_only)
    IN  /\ window # << >>
        /\ Dropped([ts |-> window[1].ts, temp |-> window[1].temp], temperature, threshold)

WindowStep(w) ==
    /\ wm' = w
    /\ UNCHANGED <<coordinator_vars, zone_vars, learning, pm, calc, tasks, cycles, overlapped>>

\* WindowManager._handle_state_change for the window sensor
SensorChange(open) ==
    /\ wm.window_sensors
    /\ wm.sensor # open
    /\ WindowStep(window_refresh_state([wm EXCEPT !.sensor = open, !.cleared = FALSE]))

\* a reading of the room temperature, the clock having moved since the last
RecordTemperature(temperature) ==
    /\ IF wm.seen = << >> THEN TRUE ELSE wm.seen[Len(wm.seen)].ts < Now
    /\ LET w == record_temperature(wm, temperature)
           e == entity_record_temperature(wm.entity, temperature, wm.window_threshold)
           expected == [manager |-> HoldExpected(wm.seen, temperature,
                                                 wm.window_threshold, TRUE),
                        entity |-> HoldExpected(wm.seen, temperature,
                                                wm.window_threshold, FALSE)]
           marked == [i \in 1..Len(wm.seen) |->
                          [wm.seen[i] EXCEPT !.fresh = @ /\ ~w.triggered]]
       IN  WindowStep([w EXCEPT
               !.entity = e,
               !.expected = expected,
               !.seen = Append(marked, [ts |-> Now, temp |-> temperature,
                                        fresh |-> ~w.triggered]),
               !.since = IF w.triggered THEN Some(0) ELSE @,
               !.restarted = w.triggered /\ is_hold_active(wm),
               !.cleared = FALSE])

FireHold(t) ==
    /\ t \in wm.timers
    /\ t.at <= Now
    /\ WindowStep([window_clear_hold(wm, t) EXCEPT !.cleared = TRUE, !.since = None])

WindowTick(d) ==
    /\ \A t \in wm.timers : d <= t.at
    /\ WindowStep([wm EXCEPT
           !.timers = {ShiftTimer(t, d) : t \in wm.timers},
           !.window_hold_unsub = ShiftHandle(wm.window_hold_unsub, d),
           !.window_hold_until = ShiftTime(wm.window_hold_until, d),
           !.temp_history = ShiftSamples(wm.temp_history, d),
           !.entity = [@ EXCEPT !.window_history = ShiftSamples(@, d)],
           !.seen = SelectSeq([i \in 1..Len(wm.seen) |->
                                   [wm.seen[i] EXCEPT !.ts = @ - d]],
                              LAMBDA s : Now - s.ts <= MaxSampleAge),
           !.since = IF @ = None THEN None
                     ELSE Some(Min(@[1] + d, WINDOW_HOLD_DURATION)),
           !.cleared = FALSE])

InitWindow ==
    /\ CoordinatorAtRest
    /\ climate = NewZone(FALSE)
    /\ arb = NoArbitration
    /\ did = None
    /\ learning = NewLearning
    /\ \E window_sensors \in BOOLEAN, threshold \in WindowThresholds :
           wm = WindowManager(window_sensors, threshold)
    /\ pm = NewPresenceManager
    /\ calc = NoCalculation
    /\ OutputsAtRest

NextWindow ==
    \/ \E open \in BOOLEAN : SensorChange(open)
    \/ \E temperature \in WindowTemps : RecordTemperature(temperature)
    \/ \E t \in wm.timers : FireHold(t)
    \/ \E d \in InferenceSteps : WindowTick(d)

SpecWindow == InitWindow /\ [][NextWindow]_vars

----------------------------------------------------------------------------
(* The presence manager: the states it reads change                        *)

HomeStates == {None, HassText("unavailable"), HassNumber(0), HassNumber(5), HassNumber(10)}
GuestStates == {None, HassText("on"), HassText("off")}
DistanceStates ==
    {None, HassText("unknown"), HassText("nan")}
        \cup {HassNumber(d) : d \in {20, 25, 27, 30}}
MotionStates == {None, HassText("on"), HassText("home"), HassText("off")}
TrackerStates == {None, HassText("Bedroom"), HassText("kitchen"), HassText("unavailable")}

EntityStates ==
    [home |-> HomeStates, guest |-> GuestStates, distance |-> DistanceStates,
     motion |-> MotionStates, tracker |-> TrackerStates]

\* _handle_state_change of the manager and of the entity for a changed state
StateChange(entity_id, state) ==
    /\ pm.states[entity_id] # state
    /\ LET p == [pm EXCEPT !.states[entity_id] = state,
                           !.previous = pm.presence_on,
                           !.changed = Some(entity_id)]
       IN  pm' = entity_refresh_presence(pm_refresh_state(p))
    /\ UNCHANGED <<coordinator_vars, zone_vars, learning, wm, calc, tasks, cycles, overlapped>>

InitPresence ==
    /\ CoordinatorAtRest
    /\ climate = NewZone(FALSE)
    /\ arb = NoArbitration
    /\ did = None
    /\ learning = NewLearning
    /\ wm = NewWindowManager
    /\ \E distance_sensors \in BOOLEAN, binary_sensors \in BOOLEAN, area_sensors \in BOOLEAN :
           pm = PresenceManager(distance_sensors, binary_sensors, area_sensors)
    /\ calc = NoCalculation
    /\ OutputsAtRest

NextPresence ==
    \E entity_id \in DOMAIN EntityStates :
        \E state \in EntityStates[entity_id] : StateChange(entity_id, state)

SpecPresence == InitPresence /\ [][NextPresence]_vars

----------------------------------------------------------------------------
(* The functions of domain/climate.py applied to arguments                 *)

CalcTargets == {5, 18, 20, 21, 30}
CalcTemps == {50, 180, 208, 210, 300}
CalcRates == {-500, 0, 500, 1500, 5000}
CalcTimes == {3600, 28800}

CalculateCompensation(target, current_temp) ==
    /\ LET c == Calculation("calculate_temperature_compensation", target,
                            Some(current_temp), 0, 0, TRUE)
           result == calculate_temperature_compensation(
                         Tenths(target), current_temp, DEFAULT_COMPENSATION_GAIN,
                         Tenths(DEFAULT_COMPENSATION_MIN), Tenths(DEFAULT_COMPENSATION_MAX))
           z == apply_output(ZoneHolding(target, Some(current_temp), TRUE))
       IN  calc' = Some([c EXCEPT !.compensation = Some(result), !.sent = z.sent])
    /\ UNCHANGED <<coordinator_vars, zone_vars, learning, wm, pm, tasks, cycles, overlapped>>

ComputePreheatStart(target, current_temp, effective_at, heating_rate, allow_preheat) ==
    /\ LET c == Calculation("compute_preheat_start", target, current_temp,
                            effective_at, heating_rate, allow_preheat)
           result == domain_compute_preheat_start(
                         current_temp, Tenths(target), effective_at, heating_rate,
                         allow_preheat)
           seconds == IF heating_rate > 0 /\ current_temp # None
                      THEN Some(preheat_seconds(Tenths(target), current_temp[1], heating_rate))
                      ELSE None
           z == ZoneHolding(target, current_temp, allow_preheat)
       IN  calc' = Some([c EXCEPT
                            !.start_at = result,
                            !.entity_start_at =
                                compute_preheat_start(z, target, effective_at, seconds)])
    /\ UNCHANGED <<coordinator_vars, zone_vars, learning, wm, pm, tasks, cycles, overlapped>>

InitCalc ==
    /\ CoordinatorAtRest
    /\ climate = NewZone(FALSE)
    /\ arb = NoArbitration
    /\ did = None
    /\ ComponentsAtRest

NextCalc ==
    \/ \E target \in CalcTargets, current_temp \in CalcTemps :
           CalculateCompensation(target, current_temp)
    \/ \E target \in CalcTargets, current_temp \in {None} \cup {Some(t) : t \in CalcTemps} :
           \E effective_at \in CalcTimes, heating_rate \in CalcRates, allow_preheat \in BOOLEAN :
               ComputePreheatStart(target, current_temp, effective_at, heating_rate, allow_preheat)

SpecCalc == InitCalc /\ [][NextCalc]_vars

----------------------------------------------------------------------------
(* The learned rate asked of a history                                     *)

HistoryLengths == {0, 4, 5, 6}
HistoryOutdoors == {7, 50}
OutdoorSteps == {0, 10}
HistoryRates == {1000, 1200}
RateSteps == {0, 200}
AskedOutdoors == {None, NotFinite, Finite(7), Finite(100)}

\* n cycles learned at outdoor temperatures a step apart, with rates a step
\* apart
LearnedHistory(n, outdoor, outdoor_step, rate, rate_step) ==
    [i \in 1..n |-> [outdoor |-> outdoor + (i - 1) * outdoor_step,
                     rate |-> rate + (i - 1) * rate_step]]

\* get_rate for the heating history, get_cooling_rate for the cooling one
GetRate(outdoor_temp) ==
    /\ learning.asked = None
    /\ learning' = [learning EXCEPT
                       !.asked = Some(outdoor_temp),
                       !.rate = Some(IF learning.kind = "heating"
                                     THEN get_rate(learning, outdoor_temp)
                                     ELSE get_cooling_rate(learning, outdoor_temp))]
    /\ UNCHANGED <<coordinator_vars, zone_vars, wm, pm, calc, tasks, cycles, overlapped>>

InitRate ==
    /\ CoordinatorAtRest
    /\ climate = NewZone(FALSE)
    /\ arb = NoArbitration
    /\ did = None
    /\ \E kind \in {"heating", "cooling"}, n \in HistoryLengths, outdoor \in HistoryOutdoors :
           \E outdoor_step \in OutdoorSteps, rate \in HistoryRates, rate_step \in RateSteps :
               learning = async_save([NewHelper(kind) EXCEPT
                              !.history = LearnedHistory(n, outdoor, outdoor_step,
                                                         rate, rate_step)])
    /\ wm = NewWindowManager
    /\ pm = NewPresenceManager
    /\ calc = NoCalculation
    /\ OutputsAtRest

NextRate == \E outdoor_temp \in AskedOutdoors : GetRate(outdoor_temp)

SpecRate == InitRate /\ [][NextRate]_vars

----------------------------------------------------------------------------
(* The target modes applied to every context                               *)

ContextTemps == {0, 12, 20, 35}
ModeTemps == {0, 15, 23, 35}

Modes ==
    {TargetMode("scheduled", 0), TargetMode("eco", 0)}
        \cup {TargetMode(n, t) : n \in FixedModes, t \in ModeTemps}

Contexts ==
    {TargetContext(s, off, comfort, eco, hp, po) :
        s \in {None} \cup {Some(t) : t \in ContextTemps},
        off \in {5, 12}, comfort \in {20, 21}, eco \in {5, 16},
        hp \in BOOLEAN, po \in BOOLEAN}

Arbitrate ==
    /\ arb.final = None
    /\ arb' = [arb EXCEPT !.final = Some(calculate_final_target(arb.mode, arb.context))]
    /\ UNCHANGED <<coordinator_vars, climate, did, component_vars>>

\* another mode takes over in the same context
SelectMode(mode) ==
    /\ arb.final # None
    /\ mode # arb.mode
    /\ arb' = [arb EXCEPT !.mode = mode, !.final = None]
    /\ UNCHANGED <<coordinator_vars, climate, did, component_vars>>

InitTarget ==
    /\ coord = NewCoordinator(0)
    /\ call = None
    /\ waiters = << >>
    /\ windows = 0
    /\ latest = << >>
    /\ ran = None
    /\ master_warnings = 0
    /\ failures = 0
    /\ hold = None
    /\ direct = None
    /\ last = None
    /\ budget = MaxRetryAttempts
    /\ climate = NewZone(FALSE)
    /\ \E mode \in Modes, context \in Contexts :
           arb = [mode |-> mode, context |-> context, final |-> None]
    /\ did = None
    /\ ComponentsAtRest

NextTarget ==
    \/ Arbitrate
    \/ \E mode \in Modes : SelectMode(mode)

SpecTarget == InitTarget /\ [][NextTarget]_vars


----------------------------------------------------------------------------
(* Claims                                                                  *)

RanRecalculate == ran # None /\ ran[1].op = "recalculate"
RanForceOff == ran # None /\ ran[1].op = "force_off"

\* C1: whenever _recalculate has just chosen between turning on and turning
\* off (master switch not off), every buffered update has been merged and it
\* chose "on" exactly when the most recent demand reported by some zone is
\* true.
C1_DecisionIsOrOfLatest ==
    (RanRecalculate /\ ran[1].master # "off") =>
        /\ DOMAIN coord.pending_demand = {}
        /\ (ran[1].decision = "on") = (\E z \in DOMAIN latest : latest[z])

\* a decision taken after a debounced flush with the zones disagreeing
C1_Witness ==
    /\ RanRecalculate
    /\ ran[1].decision = "on"
    /\ windows >= 1
    /\ DOMAIN latest = Zones
    /\ ~latest["zone1"]
    /\ latest["zone2"]

IssuesCall(kind) == call = None /\ call' # None /\ call'[1].kind = kind

\* C2: after a successful turn-off that left Firing at time t with a minimum
\* cycle of m > 0 minutes, and while only demand updates, recalculations
\* that want heat and retry timers follow: before t + m no turn-on call is
\* issued and the state does not become Firing; the first recalculation at
\* or after t + m that wants heat issues the turn-on call.
C2_AntiShortCycle ==
    [][hold # None =>
          /\ hold[1] > Now => ~IssuesCall("on") /\ coord'.state # "firing"
          /\ (hold[1] <= Now /\ ran' # None /\ ran'[1].decision = "on")
                 => IssuesCall("on")]_vars

\* a turn-on suppressed inside the minimum cycle, its retry set for t + m
C2_Witness ==
    /\ hold # None
    /\ hold[1] > Now
    /\ RanRecalculate
    /\ ran[1].decision = "on"
    /\ coord.state = "anti_cycle_cooldown"
    /\ coord.retry_unsub = hold

BreakerOpen == coord.breaker.state = "open"
WindowRunning ==
    coord.breaker.opened_until # None /\ coord.breaker.opened_until[1] > Now

\* C3: starting from Closed the breaker is open (or on trial) exactly when
\* CIRCUIT_BREAKER_FAILURES failures have been recorded with no success
\* between them; the failure that opens it at time t sets the deadline
\* t + CIRCUIT_BREAKER_RESET_SECONDS; until that deadline can_attempt
\* answers false, the breaker stays open and no driver call is issued; at
\* the deadline can_attempt admits an attempt.
C3_BreakerOpensAfterThreeFailures ==
    /\ [](/\ (coord.breaker.state = "closed")
                 <=> (failures < CIRCUIT_BREAKER_FAILURES)
          /\ coord.breaker.state = "closed"
                 => coord.breaker.failure_count = failures
          /\ (BreakerOpen /\ WindowRunning)
                 => ~can_attempt(coord.breaker, Now).ok /\ call = None
          /\ (BreakerOpen /\ ~WindowRunning)
                 => can_attempt(coord.breaker, Now).ok)
    /\ [][/\ (coord.breaker.state = "closed" /\ BreakerOpen')
                 => /\ failures' = CIRCUIT_BREAKER_FAILURES
                    /\ coord'.breaker.opened_until =
                           Some(Now + CIRCUIT_BREAKER_RESET_SECONDS)
          /\ (BreakerOpen /\ WindowRunning)
                 => BreakerOpen' /\ call' = None]_vars

\* the trial call admitted once the window of the third failure has elapsed
C3_Witness ==
    /\ coord.breaker.state = "half_open"
    /\ failures = CIRCUIT_BREAKER_FAILURES
    /\ call # None

Called(op) == direct # None /\ direct[1].op = op

\* C4: a half-open breaker has its one trial in flight.  The can_attempt
\* that finds the open window elapsed answers true and leaves the breaker
\* half-open; every can_attempt on a half-open breaker answers false and
\* changes nothing; only record_success or record_failure ends the trial.
C4_SingleHalfOpenTrial ==
    /\ [](coord.breaker.state = "half_open"
              => coord.breaker.half_open_in_flight)
    /\ [][/\ (Called("can_attempt")' /\ BreakerOpen /\ ~WindowRunning)
                 => direct'[1].ok /\ coord'.breaker.state = "half_open"
          /\ (Called("can_attempt")' /\ coord.breaker.state = "half_open")
                 => ~direct'[1].ok /\ coord'.breaker = coord.breaker
          /\ (coord.breaker.state = "half_open"
                  /\ coord'.breaker.state # "half_open")
                 => Called("record_success")' \/ Called("record_failure")'
         ]_vars

\* a second can_attempt refused while the trial is in flight
C4_Witness ==
    /\ Called("can_attempt")
    /\ direct[1].from = "half_open"
    /\ ~direct[1].ok
    /\ coord.breaker.state = "half_open"

\* C5: record_failure on a half-open breaker opens it with the deadline
\* now + CIRCUIT_BREAKER_RESET_SECONDS, whatever the failure count was;
\* record_success on a half-open or closed breaker leaves it closed with a
\* failure count of 0.
C5_TrialOutcomeDecides ==
    [][/\ (Called("record_failure")' /\ coord.breaker.state = "half_open")
              => /\ BreakerOpen'
                 /\ coord'.breaker.opened_until =
                        Some(Now + CIRCUIT_BREAKER_RESET_SECONDS)
       /\ (Called("record_success")'
               /\ coord.breaker.state \in {"half_open", "closed"})
              => /\ coord'.breaker.state = "closed"
                 /\ coord'.breaker.failure_count = 0]_vars

\* the trial has failed and the breaker is open for a full window again
C5_Witness ==
    /\ Called("record_failure")
    /\ direct[1].from = "half_open"
    /\ BreakerOpen
    /\ coord.breaker.opened_until = Some(Now + CIRCUIT_BREAKER_RESET_SECONDS)

\* async_force_off() run to its end on coordinator c, the driver answering
\* (success, was_on) if it is called
force_off(c, success, was_on) ==
    LET r == force_off_begin(c, Now)
    IN  IF r.call = None
        THEN r.c
        ELSE call_end(r.c, r.call[1], Now, success, was_on)

Terminal(c) == <<c.state, c.cooldown_until, c.retry_attempts, c.breaker>>

Outcomes == {o \in BOOLEAN \X BOOLEAN : o[1] \/ ~o[2]}

\* C6 as stated: from every state in which the lock is free and for every
\* driver outcome, force_off twice at one clock reading ends in the terminal
\* state of force_off once.
C6_ForceOffIdempotent ==
    call = None =>
        \A o \in Outcomes :
            Terminal(force_off(force_off(coord, o[1], o[2]), o[1], o[2]))
                = Terminal(force_off(coord, o[1], o[2]))

\* C6, amended: force_off twice equals force_off once whenever the breaker
\* admits the turn-off and the driver reports success; when the turn-off
\* fails or the breaker refuses it, the second call adds one more to the
\* retry counter.
C6_ForceOffIdempotentOnSuccess ==
    call = None =>
        \A w \in BOOLEAN :
            LET once  == force_off(coord, TRUE, w)
                twice == force_off(once, TRUE, w)
                failed == force_off(coord, FALSE, FALSE)
            IN  /\ force_off_begin(coord, Now).call # None
                       => Terminal(twice) = Terminal(once)
                /\ force_off(failed, FALSE, FALSE).retry_attempts
                       = failed.retry_attempts + 1

\* a second force_off in flight at the clock reading at which the first one
\* succeeded and started the cooldown
C6_Witness ==
    /\ RanForceOff
    /\ call # None
    /\ coord.min_cycle > 0
    /\ coord.state = "anti_cycle_cooldown"
    /\ coord.cooldown_until = Some(Now + coord.min_cycle * SECONDS_PER_MINUTE)

OnCall == Some([kind |-> "on", force |-> FALSE])
ForcedOffCall == Some([kind |-> "off", force |-> TRUE])
NoDelay(c) ==
    cooldown_remaining(c, Now) = 0 /\ next_attempt_in(c.breaker, Now) = 0

\* C7: a recalculation that reads the master switch as missing, unavailable
\* or unknown decides as if heating were enabled: with a zone demanding heat
\* it chooses to turn on, and with no cooldown or breaker delay left it
\* calls the driver's turn-on; a turn-on the driver reports successful ends
\* in Firing; the warning is logged at most once in a behaviour.
C7_MasterUnavailableFailsOpen ==
    [][/\ (RanRecalculate' /\ MasterUnavailable(ran'[1].master)
               /\ AnyDemand(coord'.demand))
              => /\ ran'[1].decision = "on"
                 /\ NoDelay(coord') => call' = OnCall
       /\ (call = OnCall /\ call' = None /\ failures' = 0)
              => coord'.state = "firing"
       /\ master_warnings' <= 1]_vars

\* the turn-on call of a recalculation that found the master switch
\* unavailable, the warning logged once
C7_Witness ==
    /\ RanRecalculate
    /\ ran[1].master = "unavailable"
    /\ call = OnCall
    /\ master_warnings = 1
    /\ AnyDemand(coord.demand)

\* C8: a recalculation that reads the master switch as "off" takes the
\* forced turn-off branch and nothing else: the only driver call it can
\* leave in flight is the forced turn-off, issued exactly when the breaker
\* admits it; it issues no turn-on call and does not move the state to
\* Firing, whatever the demand map holds.
C8_MasterOffForcesOff ==
    [][(RanRecalculate' /\ ran'[1].master = "off")
           => /\ ran'[1].decision = "forced_off"
              /\ call' \in {None, ForcedOffCall}
              /\ (call' = ForcedOffCall) <=> can_attempt(coord.breaker, Now).ok
              /\ coord'.state = "firing" => coord.state = "firing"]_vars

\* master switch off with a zone demanding heat: the forced turn-off is in
\* flight
C8_Witness ==
    /\ RanRecalculate
    /\ ran[1].master = "off"
    /\ AnyDemand(coord.demand)
    /\ call = ForcedOffCall

DecidedOff == ran # None /\ ran[1].decision \in {"off", "forced_off"}

\* C9 as stated: whenever recalculate decides off or force_off is called,
\* the driver's turn-off is called during that operation.
C9_TurnOffAlwaysInvoked ==
    DecidedOff => call # None /\ call[1].kind = "off"

\* C9, amended: whenever recalculate decides off or force_off is called,
\* the driver's turn-off is called during that operation exactly when the
\* breaker admits the attempt, whatever cooldown remains; while the breaker
\* is open and its window has not elapsed the call is skipped and counted
\* as a failed attempt (Failsafe, retry counter plus one).
C9_TurnOffLimitedOnlyByBreaker ==
    [][DecidedOff' =>
           IF can_attempt(coord.breaker, Now).ok
           THEN call' # None /\ call'[1].kind = "off"
           ELSE /\ call' = None
                /\ coord'.state = "failsafe"
                /\ coord'.retry_attempts = coord.retry_attempts + 1]_vars

\* a turn-off call issued while the anti-cycle cooldown is still running
C9_Witness ==
    /\ DecidedOff
    /\ call # None
    /\ call[1].kind = "off"
    /\ cooldown_remaining(coord, Now) > 0

Buffered == DOMAIN coord.pending_demand # {}
TimerPending == coord.demand_update_unsub # None

\* C10: updates are buffered exactly while the debounce timer is pending;
\* the timer is due DEMAND_UPDATE_DEBOUNCE_SECONDS after the update that
\* started it and an update buffered while it is pending leaves its deadline
\* alone; every climate's buffered value, or its applied value once flushed, is
\* the last value reported for that climate.
C10_DebounceFirstUpdateWins ==
    /\ [](/\ Buffered <=> TimerPending
          /\ TimerPending => coord.demand_update_unsub[1]
                                 <= Now + DEMAND_UPDATE_DEBOUNCE_SECONDS
          /\ DOMAIN DictUpdate(coord.demand, coord.pending_demand)
                 = DOMAIN latest
          /\ \A z \in DOMAIN latest :
                 DictUpdate(coord.demand, coord.pending_demand)[z] = latest[z])
    /\ [][/\ (~TimerPending /\ TimerPending')
                 => coord'.demand_update_unsub =
                        Some(Now + DEMAND_UPDATE_DEBOUNCE_SECONDS)
          /\ (TimerPending /\ Buffered'
                  /\ coord'.pending_demand # coord.pending_demand)
                 => coord'.demand_update_unsub = coord.demand_update_unsub
         ]_vars

\* a second zone buffered after part of the window has passed, the timer
\* still due at the first update's deadline
C10_Witness ==
    /\ DOMAIN coord.pending_demand = Zones
    /\ TimerPending
    /\ coord.demand_update_unsub[1] < DEMAND_UPDATE_DEBOUNCE_SECONDS
    /\ coord.demand = << >>

ImmediateUpdate == last # None /\ last[1].kind = "update" /\ last[1].immediate
RecalculateEntered ==
    \/ RanRecalculate'
    \/ waiters' = Append(waiters, "recalculate")
MergedAndIdle ==
    /\ ~Buffered
    /\ ~TimerPending
    /\ DOMAIN coord.demand = DOMAIN latest
    /\ \A z \in DOMAIN latest : coord.demand[z] = latest[z]

\* C11 as stated: an immediate async_update_demand leaves nothing buffered
\* and no debounce timer, the demand map holding every climate's last reported
\* value, and enters _recalculate.
C11_ImmediateAlwaysRecalculates ==
    [][ImmediateUpdate' => MergedAndIdle' /\ RecalculateEntered]_vars

\* C11, amended: an immediate async_update_demand leaves nothing buffered
\* and no debounce timer, the demand map holding every climate's last reported
\* value; it enters _recalculate exactly when the merge changed the demand
\* map.
C11_ImmediateMergesAndRecalculatesOnChange ==
    [][ImmediateUpdate' =>
           /\ MergedAndIdle'
           /\ RecalculateEntered <=> (coord'.demand # coord.demand)]_vars

\* an immediate update that took over a debounced one and recalculated
C11_Witness ==
    /\ ImmediateUpdate
    /\ RanRecalculate
    /\ windows >= 1
    /\ DOMAIN coord.demand = Zones
    /\ MergedAndIdle

DriverReturned == last # None /\ last[1].kind = "return"
FailedReturn == DriverReturned /\ ~last[1].success

C13_FailuresAbsorbed ==
    [][FailedReturn' =>
           /\ ~last'[1].raised
           /\ call' = None
           /\ IF coord.breaker.state = "closed"
                  /\ coord.breaker.failure_count + 1 < failure_threshold
              THEN /\ coord'.breaker.state = "closed"
                   /\ coord'.breaker.failure_count
                          = coord.breaker.failure_count + 1
              ELSE /\ coord'.breaker.state = "open"
                   /\ coord'.breaker.opened_until # None
           /\ coord'.state = "failsafe"
           /\ coord'.retry_unsub # None]_vars

\* the driver raised on a first attempt: Failsafe, retry pending
C13_Witness ==
    /\ FailedReturn
    /\ last[1].outcome = "raised"
    /\ coord.state = "failsafe"
    /\ coord.retry_unsub # None
    /\ coord.breaker.failure_count = 1

\* C14 as stated: between operations the cooldown deadline is set exactly
\* when the state is AntiCycleCooldown.
C14_CooldownIffAntiCycle ==
    LockFree =>
        (coord.cooldown_until # None) <=> (coord.state = "anti_cycle_cooldown")

\* C14, amended: between operations AntiCycleCooldown always holds a
\* cooldown deadline and Firing and Idle never hold one; Failsafe may hold
\* the deadline of a cooldown that was running when the attempt failed.
C14_CooldownOnlyInAntiCycleOrFailsafe ==
    LockFree =>
        /\ coord.state = "anti_cycle_cooldown" => coord.cooldown_until # None
        /\ coord.state \in {"firing", "idle"} => coord.cooldown_until = None

\* Failsafe entered while the cooldown is still running
C14_Witness ==
    /\ LockFree
    /\ coord.state = "failsafe"
    /\ cooldown_remaining(coord, Now) > 0

----------------------------------------------------------------------------
(* Zone target selection                                                   *)

OptionalTemps == {None} \cup {Some(t) : t \in ZoneTemps}

\* the zone with other inputs of the Eco and Scheduled modes
WithSchedule(z, s, home, guest, presence_on) ==
    [z EXCEPT !.schedule_target = s, !.home = home, !.guest = guest,
              !.presence_on = presence_on]

\* the zone with another preheat state
WithPreheat(z, active, target) ==
    [z EXCEPT !.preheat_active = active, !.preheat_target = target]

\* the zone with another override target
WithOverride(z, target) == [z EXCEPT !.override_target = target]

\* every zone that differs from z in the inputs below the override
BelowOverride(z) ==
    {WithPreheat(WithSchedule(z, s, h, g, po), a, p) :
        s \in OptionalTemps, h \in BOOLEAN, g \in BOOLEAN, po \in BOOLEAN,
        a \in BOOLEAN, p \in OptionalTemps}

\* every zone that differs from z in the inputs below the preheat
BelowPreheat(z) ==
    {WithSchedule(z, s, h, g, po) :
        s \in OptionalTemps, h \in BOOLEAN, g \in BOOLEAN, po \in BOOLEAN}

\* the presence post-processing of a Scheduled or Eco target
Raised(z, raw) ==
    IF z.presence_sensors /\ z.presence_on /\ raw <= z.off_temp
    THEN Max(raw, z.comfort_temp) ELSE raw

PreheatActive(z) == z.preheat_active /\ z.preheat_target # None

\* C15: the target of the zone is chosen by strict priority, the first
\* match winning: under a battery lock it is the lock's value whatever the
\* override, the preheat, the schedule and the occupancy are; else with an
\* override installed it is the override target whatever the preheat, the
\* schedule and the occupancy are; else with a preheat active it is the
\* preheat target whatever the schedule and the occupancy are; else with
\* the zone neither occupied nor in guest mode it is the eco temperature
\* whatever the schedule target is; else it is the schedule target, the
\* off temperature when unset.
C15_TargetModePriority ==
    LET z == climate
    IN  /\ z.battery_lock =>
               \A y \in BelowOverride(z), o \in OptionalTemps :
                   effective_target(WithOverride(y, o)) = Some(VALVE_MAINTENANCE_HIGH)
        /\ ~z.battery_lock /\ z.override_target # None =>
               \A y \in BelowOverride(z) : effective_target(y) = z.override_target
        /\ ~z.battery_lock /\ z.override_target = None /\ PreheatActive(z) =>
               \A y \in BelowPreheat(z) : effective_target(y) = z.preheat_target
        /\ /\ ~z.battery_lock /\ z.override_target = None /\ ~PreheatActive(z)
           /\ ~is_guest_mode(z) /\ ~is_home(z)
           => \A s \in OptionalTemps :
                  effective_target([z EXCEPT !.schedule_target = s])
                      = Some(Raised(z, eco_temp(z)))
        /\ /\ ~z.battery_lock /\ z.override_target = None /\ ~PreheatActive(z)
           /\ is_guest_mode(z) \/ is_home(z)
           => effective_target(z)
                  = Some(Raised(z, IF z.schedule_target = None THEN z.off_temp
                                   ELSE z.schedule_target[1]))

\* a battery lock taken while an override is installed over a schedule
\* target that differs from both
C15_Witness ==
    /\ did = Some([op |-> "battery"])
    /\ climate.battery_lock
    /\ climate.override_target # None
    /\ climate.schedule_target # None
    /\ climate.override_target # climate.schedule_target
    /\ climate.override_target # Some(VALVE_MAINTENANCE_HIGH)

\* a preheat is active while the zone is occupied
C15_WitnessPreheat ==
    /\ PreheatActive(climate)
    /\ is_home(climate)
    /\ climate.schedule_target # climate.preheat_target
----------------------------------------------------------------------------
(* Target modes                                                            *)

Computed == arb.final # None

\* the context of test_scheduled_fallback_with_presence_boost
UnsetScheduleOccupied == TargetContext(None, 12, 20, 16, TRUE, TRUE)

\* the presence boost applies to this mode in this context
Boosted(mode, context) ==
    /\ mode.name \in {"scheduled", "eco"}
    /\ context.has_presence_sensors
    /\ context.presence_on
    /\ get_raw_target(mode, context) <= context.off_temp

\* C16: the presence boost applies only to Scheduled and Eco.  For these
\* modes, when presence sensors exist, presence is on and the raw target is
\* at most the off temperature, the final target is at least the comfort
\* temperature (an unset schedule with off 12 and comfort 20 gives 20), and
\* otherwise it is the clamped raw target; for Boost, Save, Preheat and
\* Failsafe the final target is the same for every value of the two
\* presence inputs.
C16_PresenceBoostOnlyScheduledAndEco ==
    Computed =>
        LET mode == arb.mode
            context == arb.context
            final == arb.final[1]
        IN  /\ Boosted(mode, context) => final >= context.comfort_temp
            /\ (mode.name \in {"scheduled", "eco"} /\ ~Boosted(mode, context)) =>
                   final = clamp_target(get_raw_target(mode, context))
            /\ (mode.name = "scheduled" /\ context = UnsetScheduleOccupied) =>
                   final = 20
            /\ mode.name \in FixedModes =>
                   \A hp \in BOOLEAN, po \in BOOLEAN :
                       calculate_final_target(
                           mode, [context EXCEPT !.has_presence_sensors = hp,
                                                 !.presence_on = po]) = final

\* the Scheduled mode has computed 20 from an unset schedule in an occupied
\* zone with off 12 and comfort 20
C16_Witness ==
    /\ Computed
    /\ arb.mode.name = "scheduled"
    /\ arb.context = UnsetScheduleOccupied
    /\ arb.final = Some(20)

\* a Boost below the off temperature has been computed in an occupied zone
C16_WitnessBoost ==
    /\ Computed
    /\ arb.mode.name = "boost"
    /\ arb.context.has_presence_sensors /\ arb.context.presence_on
    /\ arb.mode.target_temp <= arb.context.off_temp

InRange(t) == MIN_TARGET_TEMP <= t /\ t <= MAX_TARGET_TEMP

\* the final target of every mode in every context lies within [5, 30]
ArbitrationClamped == Computed => InRange(arb.final[1])

\* an override outside [5, 30] is installed and no battery lock is active
OverrideOutOfRange ==
    /\ ~climate.battery_lock
    /\ climate.override_target # None
    /\ ~InRange(climate.override_target[1])

\* C17: for every mode and every context the final target produced by the
\* target modes lies within [5, 30] degrees, and so does the effective
\* target of the zone.
C17_TargetWithinRange ==
    /\ ArbitrationClamped
    /\ effective_target(climate) # None => InRange(effective_target(climate)[1])

----------------------------------------------------------------------------
(* Manual overrides                                                        *)

\* the last step was the entry point op of the zone
ZoneDid(op) == did # None /\ did[1].op = op

Override(z) == <<z.override_type, z.override_target>>

NoOverride == <<None, None>>

\* the schedule target of the zone, the off temperature when unset
ScheduleOrOff(z) ==
    IF z.schedule_target = None THEN z.off_temp ELSE z.schedule_target[1]

\* C18: a set-temperature request with no battery lock compares the
\* requested value with the schedule target (the off temperature when
\* unset): a greater value installs Boost(requested), a smaller one installs
\* Save(requested), an equal one clears any override; after the request the
\* one override installed is the one just selected.
C18_SetTemperatureComparesSchedule ==
    [][(ZoneDid("async_set_temperature")' /\ ~climate.battery_lock) =>
           LET requested == did'[1].temperature
               reference == ScheduleOrOff(climate)
           IN  /\ requested > reference =>
                      Override(climate') = <<Some("boost"), Some(requested)>>
               /\ requested < reference =>
                      Override(climate') = <<Some("save"), Some(requested)>>
               /\ requested = reference => Override(climate') = NoOverride]_vars

BoostTimers(z) == {t \in z.timers : t.kind = "boost"}

BoostInstalled(z) == z.override_type = Some("boost")

\* the boost timer of the last step came due and ran its callback
BoostExpired == ZoneDid("timer") /\ did[1].kind = "boost"

\* C19: a Boost reverts to no override 90 minutes after it was installed
\* unless it is replaced or cleared earlier.  At most one boost timer is
\* pending; one is pending exactly while a Boost is installed, it is the one
\* whose handle the zone keeps and it comes due when that Boost expires, so
\* no timer of a replaced or cleared Boost is left to fire; a request that
\* installs a Boost (none does under a battery lock) sets its timer to 90
\* minutes; the timer coming due
\* finds its Boost installed and leaves no override.
C19_BoostExpiry ==
    /\ [](/\ Cardinality(BoostTimers(climate)) <= 1
          /\ BoostInstalled(climate) <=> BoostTimers(climate) # {}
          /\ \A t \in BoostTimers(climate) :
                 /\ climate.boost_unsub = Some(t)
                 /\ climate.override_expires = Some(t.at)
                 /\ t.at <= Now + BOOST_DURATION)
    /\ [][/\ (/\ ZoneDid("async_set_temperature")'
              /\ ~climate.battery_lock
              /\ BoostInstalled(climate')) =>
                  \A t \in BoostTimers(climate') : t.at = Now + BOOST_DURATION
          /\ BoostExpired' =>
                  /\ BoostInstalled(climate)
                  /\ Override(climate') = NoOverride
                  /\ BoostTimers(climate') = {}]_vars

\* a Boost has expired after its 90 minutes
C19_Witness ==
    /\ BoostExpired
    /\ Override(climate) = NoOverride

\* a Boost is installed with 30 of its 90 minutes left
C19_WitnessRunning ==
    /\ BoostInstalled(climate)
    /\ climate.override_expires = Some(Now + 1800)

----------------------------------------------------------------------------
(* Schedule pushes                                                         *)

SaveInstalled(z) == z.override_type = Some("save")

\* the last step applied a pushed schedule target: a push for immediate
\* effect that no battery lock made the zone ignore, or the timer of a push
\* with a future effective time coming due
PushTookEffect ==
    \/ ZoneDid("_handle_schedule") /\ ~did[1].future /\ ~climate.battery_lock
    \/ ZoneDid("timer") /\ did[1].kind = "apply"

----------------------------------------------------------------------------
(* Zone output and demand                                                  *)

\* the target the demand decision is given: a battery-locked zone commands
\* the failsafe temperature and has none
DemandTarget(z) == IF z.battery_lock THEN None ELSE effective_target(z)

DemandExpected(z) ==
    /\ ~is_forced_off(z)
    /\ DemandTarget(z) # None
    /\ z.current_temperature # None
    /\ z.current_temperature[1] + 1 < Tenths(DemandTarget(z)[1])

OutputApplied == did # None /\ climate.applied

C21_WitnessHysteresis ==
    /\ OutputApplied
    /\ ~climate.demand
    /\ ~is_forced_off(climate)
    /\ ~climate.battery_lock
    /\ ~climate.maintenance_active
    /\ climate.current_temperature = Some(209)
    /\ effective_target(climate) = Some(21)

\* an application during a valve maintenance, the room below the target
C21_WitnessMaintenance ==
    /\ OutputApplied
    /\ climate.maintenance_active
    /\ ~climate.demand
    /\ DemandExpected(climate)

\* what a request of the user or of the schedule may change in the zone
Requested(z) ==
    [override |-> <<z.override_type, z.override_target, z.override_expires, z.boost_unsub>>,
     user_hvac_off |-> z.user_hvac_off,
     schedule_target |-> z.schedule_target,
     pending |-> <<z.pending_target, z.pending_effective_at, z.preheat_apply_unsub>>,
     preheat |-> <<z.preheat_active, z.preheat_target, z.preheat_effective_at,
                   z.preheat_start_unsub>>,
     timers |-> z.timers]

RequestOps == {"async_set_temperature", "async_set_hvac_mode", "_handle_schedule"}

\* C22: while the battery lock is active, a manual set-temperature, a
\* set-HVAC-mode and a schedule push (immediate or future) are ignored: each
\* leaves override, user-off flag, schedule target, pending future target and
\* preheat state (and the pending timers) unchanged, and preheat is never
\* active in a battery-locked zone.
C22_BatteryLockIgnoresRequests ==
    /\ [](climate.battery_lock => ~climate.preheat_active)
    /\ [][climate.battery_lock /\ did' # None /\ did'[1].op \in RequestOps
              => /\ Requested(climate') = Requested(climate)
                 /\ climate'.battery_lock
                 /\ ~climate'.applied]_vars

\* a future schedule push met a battery-locked zone whose room is below the
\* pushed target
C22_Witness ==
    /\ climate.battery_lock
    /\ ZoneDid("_handle_schedule")
    /\ did[1].future
    /\ did[1].target = 21
    /\ climate.pending_target = None
    /\ climate.current_temperature = Some(180)
    /\ is_home(climate)

\* a set-HVAC-mode met a battery-locked zone
C22_WitnessHvacMode ==
    /\ climate.battery_lock
    /\ ZoneDid("async_set_hvac_mode")
    /\ did[1].off
    /\ ~climate.user_hvac_off

\* a set-temperature met a battery-locked zone
C22_WitnessSetTemperature ==
    /\ climate.battery_lock
    /\ ZoneDid("async_set_temperature")
    /\ did[1].temperature = 35
    /\ climate.override_target = None

----------------------------------------------------------------------------
(* Thermal learning                                                        *)

RECURSIVE Newest(_, _)
\* the last n elements of a sequence, all of it when it is shorter
Newest(s, n) == IF Len(s) <= n THEN s ELSE Newest(Tail(s), n)

\* C23: after any sequence of cycle starts and ends, the zone's history is
\* exactly the most recent at-most-50 qualifying completed cycles in
\* completion order (a cycle qualifies when it lasted more than 15 minutes,
\* its delta in the expected direction is > 0 and its outdoor reading is
\* present and finite); on overflow the oldest sample goes first.
C23_HistoryIsNewestQualifying ==
    /\ Len(learning.history) <= MAX_HISTORY_POINTS
    /\ [i \in 1..Len(learning.history) |-> learning.history[i].outdoor]
           = Newest(learning.completed, MAX_HISTORY_POINTS)

\* more than 50 cycles qualified, and cycles that did not were ended too
C23_Witness ==
    /\ Len(learning.completed) > MAX_HISTORY_POINTS
    /\ learning.rejected > 0
    /\ Len(learning.history) = MAX_HISTORY_POINTS
    /\ learning.history[1].outdoor = learning.completed[Len(learning.completed) - MAX_HISTORY_POINTS + 1]

----------------------------------------------------------------------------
(* Window detection                                                        *)

\* a hold was triggered less than 15 minutes ago
HoldRunning == wm.since # None /\ wm.since[1] < WINDOW_HOLD_DURATION

SensorOpen == wm.window_sensors /\ wm.sensor

\* C25: is_forced_off() is true iff the window is open or the hold is
\* active: from the moment a hold is triggered it is true for 15 minutes,
\* with no sensor reporting open it is false once the hold timer has fired,
\* and a re-trigger during the hold restarts the 15 minutes with a single
\* pending timer.
C25_ForcedOffIffOpenOrHold ==
    /\ window_is_forced_off(wm) <=> (SensorOpen \/ HoldRunning)
    /\ window_open(wm.state) <=> SensorOpen
    /\ wm.cleared /\ ~SensorOpen => ~window_is_forced_off(wm)
    /\ wm.since = None => wm.timers = {}
    /\ wm.since # None =>
           /\ wm.timers = {Timer("hold", WINDOW_HOLD_DURATION - wm.since[1], None, None)}
           /\ wm.window_hold_unsub = Some(Timer("hold", WINDOW_HOLD_DURATION - wm.since[1], None, None))
           /\ wm.window_hold_until = Some(WINDOW_HOLD_DURATION - wm.since[1])

\* a reading triggered a hold while an earlier hold was running
C25_Witness ==
    /\ wm.restarted
    /\ wm.since = Some(0)
    /\ window_is_forced_off(wm)
    /\ ~SensorOpen

\* the hold timer has fired with no sensor open
C25_WitnessCleared == wm.cleared /\ ~SensorOpen /\ wm.window_sensors

\* the window is closed again while the hold runs
C25_WitnessHoldOnly ==
    /\ wm.state = "hold"
    /\ wm.window_sensors
    /\ wm.since # None
    /\ wm.since[1] = WINDOW_HOLD_DURATION - 60

C26_WitnessOutside ==
    /\ ~wm.triggered
    /\ ~wm.entity.triggered
    /\ Len(wm.seen) >= 3
    /\ wm.seen[Len(wm.seen)].ts = Now
    /\ wm.seen[1].ts < Now - TEMP_HISTORY_SECONDS
    /\ wm.seen[1].temp - wm.seen[Len(wm.seen)].temp >= WINDOW_DROP

----------------------------------------------------------------------------
(* Presence detection                                                      *)

Occupied == pm_is_home(pm) \/ pm_is_guest_mode(pm)

Refreshed == pm.changed # None

MotionSeen ==
    pm.binary_sensors /\ pm.states.motion \in {HassText("on"), HassText("home")}

\* C27: after every refresh presence is false whenever the home indicator
\* is not truthy and guest mode is off, whatever the proximity, binary and
\* device-tracker sensors read; with home truthy a binary presence sensor
\* reading on or home makes presence true.
C27_PresenceGatedByOccupancy ==
    /\ Refreshed /\ ~Occupied => ~pm.presence_on /\ ~pm.entity_presence_on
    /\ Refreshed /\ pm_is_home(pm) /\ MotionSeen => pm.presence_on /\ pm.entity_presence_on

\* nobody home, guest mode off, and every sensor reports presence
C27_Witness ==
    /\ Refreshed
    /\ ~Occupied
    /\ pm.states.home = HassNumber(5)
    /\ pm.distance_sensors /\ pm.states.distance = HassNumber(20)
    /\ MotionSeen
    /\ pm.area_sensors /\ pm.states.tracker = HassText("Bedroom")
    /\ ~pm.presence_on

\* somebody home and the motion sensor on
C27_WitnessHome ==
    /\ Refreshed
    /\ pm_is_home(pm)
    /\ ~pm_is_guest_mode(pm)
    /\ MotionSeen
    /\ ~pm.distance_sensors
    /\ pm.presence_on

\* no binary or area sensor of the zone reports presence
OnlyProximity ==
    /\ ~MotionSeen
    /\ ~(pm.area_sensors /\ pm.states.tracker = HassText("Bedroom"))

Distance == state_to_float(pm.states.distance)

\* the distance sensor reads a finite distance below the bound
Within(bound) ==
    /\ pm.distance_sensors
    /\ Distance # None
    /\ Distance[1].finite
    /\ Distance[1].value < bound

C28_WitnessStaysFalse ==
    /\ Refreshed
    /\ Occupied
    /\ OnlyProximity
    /\ pm.changed = Some("distance")
    /\ pm.states.distance = HassNumber(27)
    /\ ~pm.previous
    /\ ~pm.presence_on

----------------------------------------------------------------------------
(* Domain calculations                                                     *)

Calculated(function) == calc # None /\ calc[1].function = function

Limited(raw) ==
    IF raw < Tenths(5) THEN Tenths(5) ELSE IF raw > Tenths(30) THEN Tenths(30) ELSE raw

Compensated(target, current_temp, error, raw, clamped) ==
    /\ calc[1].target = target /\ calc[1].current_temp = Some(Tenths(current_temp))
    => calc[1].compensation = Some(TemperatureCompensation(Tenths(error), Tenths(raw), Tenths(clamped)))

\* C29: calculate_temperature_compensation returns error = target - current,
\* raw = target + 2.0 * error and clamped = raw limited to [5, 30] (20/18
\* gives 2.0, 24.0, 24.0; 5/30 gives clamped 5.0; 30/5 gives clamped 30.0),
\* and the temperature a zone with temperature sensors sends to its valves
\* for that target and room temperature is the clamped value, within [5, 30].
C29_CompensationClamped ==
    Calculated("calculate_temperature_compensation") =>
        LET result == calc[1].compensation[1]
            target == Tenths(calc[1].target)
            current == calc[1].current_temp[1]
        IN  /\ result.error = target - current
            /\ result.compensated_target = target + 2 * result.error
            /\ result.clamped_target = Limited(result.compensated_target)
            /\ Compensated(20, 18, 2, 24, 24)
            /\ Compensated(5, 30, -25, -45, 5)
            /\ Compensated(30, 5, 25, 80, 30)
            /\ calc[1].sent = Command("heat", result.clamped_target)
            /\ calc[1].sent[1].temperature >= Tenths(5)
            /\ calc[1].sent[1].temperature <= Tenths(30)

\* target 30 with the room at 20.8: the raw value 48.4 is sent as 30
C29_Witness ==
    /\ Calculated("calculate_temperature_compensation")
    /\ calc[1].target = 30
    /\ calc[1].current_temp = Some(208)
    /\ calc[1].compensation[1].compensated_target = 484
    /\ calc[1].sent = Command("heat", 300)

\* target 5 with the room at 30: sent as 5
C29_WitnessFloor ==
    /\ Calculated("calculate_temperature_compensation")
    /\ calc[1].target = 5
    /\ calc[1].current_temp = Some(300)
    /\ calc[1].compensation[1].clamped_target = 50

PreheatApplies ==
    /\ calc[1].allow_preheat
    /\ calc[1].current_temp # None
    /\ Tenths(calc[1].target) > calc[1].current_temp[1]
    /\ calc[1].heating_rate > 0

\* C30: compute_preheat_start returns effective_at minus
\* (target - current) / rate hours when preheat is allowed, the current
\* temperature is known, target > current and rate > 0 (18 to 21 at 1.5
\* gives two hours before), and nothing in every other case; a result is
\* strictly earlier than effective_at.  The zone's own copy agrees.
C30_PreheatStart ==
    Calculated("compute_preheat_start") =>
        /\ PreheatApplies =>
               /\ calc[1].start_at # None
               /\ (calc[1].effective_at - calc[1].start_at[1]) * calc[1].heating_rate
                      = 360000 * (Tenths(calc[1].target) - calc[1].current_temp[1])
               /\ calc[1].start_at[1] < calc[1].effective_at
        /\ ~PreheatApplies => calc[1].start_at = None
        /\ /\ PreheatApplies
           /\ calc[1].target = 21
           /\ calc[1].current_temp = Some(180)
           /\ calc[1].heating_rate = 1500
           => calc[1].start_at = Some(calc[1].effective_at - 7200)
        /\ calc[1].entity_start_at = calc[1].start_at

\* 18 to 21 at 1.5 degrees an hour, effective in eight hours: six hours from now
C30_Witness ==
    /\ Calculated("compute_preheat_start")
    /\ PreheatApplies
    /\ calc[1].target = 21
    /\ calc[1].current_temp = Some(180)
    /\ calc[1].heating_rate = 1500
    /\ calc[1].effective_at = 28800
    /\ calc[1].start_at = Some(21600)

\* preheat not allowed: no start
C30_WitnessDisallowed ==
    /\ Calculated("compute_preheat_start")
    /\ ~calc[1].allow_preheat
    /\ calc[1].target = 21
    /\ calc[1].current_temp = Some(180)
    /\ calc[1].heating_rate = 1500
    /\ calc[1].start_at = None

----------------------------------------------------------------------------
(* The learned rate                                                        *)

Asked == learning.asked # None

DefaultRate == IF learning.kind = "heating" THEN DEFAULT_RATE ELSE DEFAULT_COOLING_RATE

SameOutdoor ==
    \A i \in 1..Len(learning.history), j \in 1..Len(learning.history) :
        learning.history[i].outdoor = learning.history[j].outdoor

\* C24: get_rate / get_cooling_rate returns the default (1.5 heating, 0.5
\* cooling) whenever the history has fewer than 5 points or all its outdoor
\* readings are equal, and the rate returned is always within [0.1, 5.0].
C24_DefaultWhenDegenerate ==
    Asked =>
        /\ Len(learning.history) < MIN_HISTORY_POINTS \/ SameOutdoor
               => learning.rate[1] = DefaultRate
        /\ ~FLess(learning.rate[1], RATE_MIN)
        /\ ~FLess(RATE_MAX, learning.rate[1])

----------------------------------------------------------------------------
(* Suppressed turn-on                                                      *)

\* the delay _ensure_boiler_on finds when the operation of this step begins
SuppressDelay ==
    Max(cooldown_remaining(coord, Now), next_attempt_in(coord.breaker, Now))

\* a locked operation began in this step, wanted heat and found a delay
Suppressed == ran' # None /\ ran'[1].decision = "on" /\ SuppressDelay > 0

\* C31: a turn-on suppressed by delay = max(cooldown remaining, breaker
\* delay) > 0 calls no driver, leaves the state Failsafe if the breaker
\* delays the attempt and AntiCycleCooldown otherwise, and leaves one retry
\* timer pending that is due after delay.
C31_SuppressedTurnOn ==
    [][Suppressed =>
           /\ call' = None
           /\ coord'.state = IF next_attempt_in(coord.breaker, Now) > 0
                             THEN "failsafe"
                             ELSE "anti_cycle_cooldown"
           /\ coord'.retry_unsub = Some(Now + SuppressDelay)]_vars

----------------------------------------------------------------------------
(* Successful turn-off                                                     *)

\* the driver's turn-off returned success in this step
TurnedOff == DriverReturned' /\ last'[1].success /\ last'[1].call.kind = "off"

CooldownStarted ==
    IF coord.min_cycle <= 0
    THEN coord'.state = "idle" /\ coord'.cooldown_until = None
    ELSE /\ coord'.state = "anti_cycle_cooldown"
         /\ coord'.cooldown_until = Some(Now + coord.min_cycle * SECONDS_PER_MINUTE)

\* C32: after a successful turn-off: if the boiler had been on, the call
\* was forced or the state was Firing, the cooldown starts (AntiCycleCooldown
\* until now + min_cycle minutes, Idle without deadline for min_cycle <= 0);
\* otherwise from Failsafe the state is AntiCycleCooldown when cooldown
\* remains and Idle when none does; otherwise state and cooldown deadline
\* stay as they are.  In every case the state is Idle or AntiCycleCooldown
\* and no retry timer is pending.
C32_AfterSuccessfulTurnOff ==
    [][TurnedOff =>
           /\ IF last'[1].was_on \/ last'[1].call.force \/ coord.state = "firing"
              THEN CooldownStarted
              ELSE IF coord.state = "failsafe"
                   THEN coord'.state = IF cooldown_remaining(coord, Now) > 0
                                       THEN "anti_cycle_cooldown"
                                       ELSE "idle"
                   ELSE /\ coord'.state = coord.state
                        /\ coord'.cooldown_until = coord.cooldown_until
           /\ coord'.state \in {"idle", "anti_cycle_cooldown"}
           /\ coord'.retry_unsub = None]_vars

\* a turn-off that was neither forced nor found the boiler on has resolved
\* Failsafe into the cooldown that was still running
C32_Witness ==
    /\ DriverReturned
    /\ last[1].success
    /\ last[1].call = [kind |-> "off", force |-> FALSE]
    /\ ~last[1].was_on
    /\ last[1].from = "failsafe"
    /\ coord.state = "anti_cycle_cooldown"
    /\ cooldown_remaining(coord, Now) > 0
    /\ coord.retry_unsub = None

\* a forced turn-off has started the cooldown
C32_WitnessCooldown ==
    /\ DriverReturned
    /\ last[1].success
    /\ last[1].call = [kind |-> "off", force |-> TRUE]
    /\ last[1].from = "idle"
    /\ coord.state = "anti_cycle_cooldown"
    /\ coord.cooldown_until = Some(Now + SECONDS_PER_MINUTE)

\* a turn-off in Idle has left state and deadline alone
C32_WitnessUnchanged ==
    /\ DriverReturned
    /\ last[1].success
    /\ last[1].call = [kind |-> "off", force |-> FALSE]
    /\ ~last[1].was_on
    /\ last[1].from = "idle"
    /\ coord.state = "idle"

----------------------------------------------------------------------------
(* One driver call at a time                                               *)

DecisionStarts == ran' # None
CallStarts == call' # None /\ call' # call
DebouncedUpdate == last' # None /\ last'[1].kind = "update" /\ ~last'[1].immediate

\* C33: a locked operation (_recalculate from a flush, an immediate update,
\* a retry or async_recalculate, or async_force_off) takes its decision and
\* starts its driver call only when no driver call is in flight, that is
\* after the operation before it has recorded the outcome and written the
\* state; one that arrives meanwhile waits its turn.  A non-immediate
\* async_update_demand made while a call is in flight returns at once: it
\* starts nothing, joins no queue, leaves the demand map alone and leaves
\* its value buffered with the debounce timer pending.
C33_OneCallInFlight ==
    [][/\ DecisionStarts => call = None
       /\ CallStarts => call = None /\ DecisionStarts
       /\ (call # None /\ ~(\E o \in DriverOutcomes : last' # None /\ last'[1].kind = "return" /\ last'[1].outcome = o))
              => call' = call /\ coord'.state = coord.state /\ coord'.breaker = coord.breaker
       /\ (DebouncedUpdate /\ call # None)
              => /\ ~DecisionStarts
                 /\ waiters' = waiters
                 /\ coord'.demand = coord.demand
                 /\ coord'.demand_update_unsub # None
                 /\ \A z \in DOMAIN latest' :
                        DictUpdate(coord.demand, coord'.pending_demand)[z] = latest'[z]
      ]_vars

\* a turn-off is in flight, a recalculation waits for the lock and a
\* non-immediate update has just been buffered
C33_Witness ==
    /\ call # None
    /\ waiters = <<"recalculate">>
    /\ last # None
    /\ last[1].kind = "update"
    /\ ~last[1].immediate
    /\ DOMAIN coord.pending_demand # {}

----------------------------------------------------------------------------
(* Thermal learning after a start: the Store read, then cycles             *)

MaxLoadedCycles == 3
StoredLengths == {0, 2, MAX_HISTORY_POINTS}

\* what the Store holds when the integration is set up: nothing, a blob of
\* another schema, or the histories of an earlier run
StoredBlobs ==
    {None, UnknownBlob} \cup {Blob(LearnedHistory(n, 7, 1, 1000, 0)) : n \in StoredLengths}

\* async_setup_entry: learning.async_load() right after VestaLearning(hass)
Load ==
    /\ ~learning.loaded
    /\ learning' = [async_load(learning) EXCEPT !.loaded = TRUE]
    /\ UNCHANGED <<coordinator_vars, zone_vars, wm, pm, calc, tasks, cycles, overlapped>>

InitLoad ==
    /\ CoordinatorAtRest
    /\ climate = NewZone(FALSE)
    /\ arb = NoArbitration
    /\ did = None
    /\ \E kind \in {"heating", "cooling"}, blob \in StoredBlobs :
           learning = [NewHelper(kind) EXCEPT !.store = blob]
    /\ wm = NewWindowManager
    /\ pm = NewPresenceManager
    /\ calc = NoCalculation
    /\ OutputsAtRest

NextLoad ==
    \/ Load
    \/ /\ learning.loaded
       /\ learning.started < MaxLoadedCycles
       /\ \E start_temp \in CycleTemps, outdoor_temp \in OutdoorReadings(learning) :
              StartCycle(start_temp, outdoor_temp)
    \/ \E end_temp \in CycleTemps : EndCycle(end_temp)
    \/ \E d \in CycleSteps : LearningTick(d)

SpecLoad == InitLoad /\ [][NextLoad]_vars

SampleAccepted == Len(learning'.completed) = Len(learning.completed) + 1
LastOf(s) == s[Len(s)]
NewSample == LastOf(learning'.completed)

\* C34: the sample of every accepted cycle is the last element of the
\* zone's history that get_rate / get_cooling_rate reads, and the Store
\* holds that history, whatever async_load found in the Store at the start.
C34_SampleReachesStoredHistory ==
    [][SampleAccepted =>
           /\ zone_history(learning') # << >>
           /\ LastOf(zone_history(learning')).outdoor = NewSample
           /\ learning'.store = Blob(zone_history(learning'))]_vars

\* the same when the Store held nothing at the start
C34_WithoutStoredData ==
    [][SampleAccepted /\ learning.rebound = None =>
           /\ LastOf(zone_history(learning')).outdoor = NewSample
           /\ learning'.store = Blob(zone_history(learning'))]_vars

\* a cycle was accepted after async_load had restored two stored samples
C34_AcceptedAfterLoad ==
    /\ learning.loaded
    /\ learning.rebound # None
    /\ Len(learning.rebound[1]) = 2
    /\ Len(learning.completed) = 1

\* a cycle was accepted after async_load had found nothing stored
C34_AcceptedWithoutStoredData ==
    /\ learning.loaded
    /\ learning.rebound = None
    /\ Len(learning.completed) = 1

----------------------------------------------------------------------------
(* The master switch as the zone reads it                                  *)

\* nothing but the master switch could force the zone off, no valve
\* exercise running
OnlyMasterCouldForceOff(z) ==
    /\ ~z.battery_lock
    /\ ~z.user_hvac_off
    /\ ~z.window_open
    /\ ~z.maintenance_active
    /\ z.window_hold_until = None \/ Now >= z.window_hold_until[1]

\* currentTemp + 0.1 < target
BelowTarget(z) ==
    /\ z.current_temperature # None
    /\ z.current_temperature[1] + 1 < Tenths(effective_target(z)[1])

SentOff(z) == z.sent # None /\ z.sent[1].hvac_mode = "off"

\* C35: after an output application with nothing but the master switch in
\* question, a zone whose master switch is not explicitly "off" (on,
\* missing, unknown or unavailable) is not forced off: its mode is heat, its
\* valves are not commanded off, and it demands heat exactly when the room
\* is more than 0.1 degrees below the target.
C35_ForcedOffOnlyWhenMasterOff ==
    (OutputApplied /\ OnlyMasterCouldForceOff(climate) /\ climate.master # Some("off"))
        => /\ hvac_mode(climate) = "heat"
           /\ ~SentOff(climate)
           /\ climate.demand = BelowTarget(climate)

\* the same for a master switch that is on or has no state object
C35_WhenOnOrMissing ==
    (OutputApplied /\ OnlyMasterCouldForceOff(climate) /\ climate.master \in {None, Some("on")})
        => /\ hvac_mode(climate) = "heat"
           /\ ~SentOff(climate)
           /\ climate.demand = BelowTarget(climate)

\* a master switch that is explicitly off forces the zone off
C35_WhenOff ==
    (OutputApplied /\ OnlyMasterCouldForceOff(climate) /\ climate.master = Some("off"))
        => /\ hvac_mode(climate) = "off"
           /\ SentOff(climate)
           /\ ~climate.demand

\* a cold zone whose master switch has become unavailable
C35_UnavailableBelowTarget ==
    /\ OutputApplied
    /\ OnlyMasterCouldForceOff(climate)
    /\ climate.master = Some("unavailable")
    /\ BelowTarget(climate)

\* a cold zone whose master switch entity is missing
C35_MissingBelowTarget ==
    /\ OutputApplied
    /\ OnlyMasterCouldForceOff(climate)
    /\ climate.master = None
    /\ BelowTarget(climate)
    /\ climate.demand

----------------------------------------------------------------------------
(* Schedule pushes with a future effective time                            *)

\* the zone with pushes, manual requests, calendar events, the battery
\* sensor and somebody coming home
NextSchedule ==
    \/ \E stored \in StoredTargets, low \in BOOLEAN, temperature \in CurrentTemps :
           Startup(stored, FALSE, low, temperature)
    \/ \E temperature \in ZoneTemps : SetTemperature(temperature)
    \/ \E off \in BOOLEAN : SetHvacMode(off)
    \/ \E target \in ScheduleTemps, effective_at \in {None} \cup {Some(d) : d \in FutureDelays},
          seconds \in HeatingSeconds :
           HandleSchedule(target, effective_at, seconds)
    \/ \E target \in ScheduleTemps : PollCalendar(target)
    \/ \E low \in BOOLEAN, stored \in StoredTargets : BatteryChange(low, stored)
    \/ \E home \in BOOLEAN : PresenceChange(home, FALSE, FALSE)
    \/ \E t \in climate.timers : FireTimer(t)
    \/ \E d \in ZoneTickSteps(climate) : ZoneTick(d)

SpecSchedule == InitZone /\ [][NextSchedule]_vars

PushPending(z) == z.pending_target # None

\* the apply timer of the pending push is armed for its target and time
ApplyArmed(z) ==
    /\ z.preheat_apply_unsub # None
    /\ z.preheat_apply_unsub[1] \in z.timers
    /\ z.preheat_apply_unsub[1].kind = "apply"
    /\ z.preheat_apply_unsub[1].target = z.pending_target
    /\ z.preheat_apply_unsub[1].effective_at = z.pending_effective_at
    /\ z.preheat_apply_unsub[1].at = z.pending_effective_at[1]

ManualRequest == did' # None /\ did'[1].op \in {"async_set_temperature", "async_set_hvac_mode"}
ApplyFires == did' # None /\ did'[1].op = "timer" /\ did'[1].kind = "apply"
PushAccepted == did' # None /\ did'[1].op = "_handle_schedule" /\ did'[1].future /\ ~climate.battery_lock

PreheatCleared(z) ==
    /\ ~z.preheat_active
    /\ z.preheat_target = None
    /\ z.preheat_effective_at = None
    /\ z.pending_target = None
    /\ z.pending_effective_at = None

\* C36: a schedule push with a future effective time stores its target and
\* arms the apply timer for that time; when the timer fires, the schedule
\* target becomes the pushed target and the preheat and pending state is
\* cleared; an async_set_temperature or async_set_hvac_mode request made
\* while the push is pending leaves the pending target stored and its apply
\* timer armed.
C36_PushAppliedAtEffectiveTime ==
    [][/\ PushAccepted => PushPending(climate') /\ ApplyArmed(climate')
       /\ ApplyFires => climate'.schedule_target = did'[1].target /\ PreheatCleared(climate')
       /\ (ManualRequest /\ PushPending(climate) /\ ApplyArmed(climate))
              => /\ climate'.pending_target = climate.pending_target
                 /\ ApplyArmed(climate')]_vars

\* the parts of C36 about the push itself and the firing of its timer
C36_PushArmsAndApplies ==
    [][/\ PushAccepted => PushPending(climate') /\ ApplyArmed(climate')
       /\ ApplyFires => climate'.schedule_target = did'[1].target /\ PreheatCleared(climate')]_vars

\* what the manual requests do to a pending push: a temperature equal to
\* the schedule target and a request for heat leave it alone, every other
\* one removes the pending target and its timers
C36_ManualRequestCancels ==
    [][(ManualRequest /\ PushPending(climate) /\ ApplyArmed(climate))
           => IF \/ did'[1].op = "async_set_hvac_mode" /\ ~did'[1].off
                 \/ did'[1].op = "async_set_temperature" /\ climate'.override_type = None
              THEN climate'.pending_target = climate.pending_target /\ ApplyArmed(climate')
              ELSE /\ ~PushPending(climate')
                   /\ climate'.preheat_apply_unsub = None
                   /\ \A t \in climate'.timers : t.kind \notin {"apply", "start"}]_vars

\* the apply timer of a push has fired and made 21 the schedule target
C36_PendingPushApplied ==
    /\ did # None
    /\ did[1].op = "timer"
    /\ did[1].kind = "apply"
    /\ climate.schedule_target = Some(21)

----------------------------------------------------------------------------
(* Preheat timers and the pending target they were armed for               *)

PreheatTimers(z) == {t \in z.timers : t.kind \in {"apply", "start"}}

NoStaleTimer(z) ==
    \A t \in PreheatTimers(z) :
        /\ z.pending_target = t.target
        /\ z.pending_effective_at = t.effective_at

CalendarApplied == did' # None /\ did'[1].op = "_poll_calendar"

\* every handler but the calendar poll that finds an active event keeps
\* the timers and the pending target together
C37_ExceptActiveCalendarEvent ==
    [][(NoStaleTimer(climate) /\ ~CalendarApplied) => NoStaleTimer(climate')]_vars

\* a push is pending with both of its timers armed
C37_BothTimersArmed ==
    /\ PushPending(climate)
    /\ \E t \in climate.timers : t.kind = "apply"
    /\ \E t \in climate.timers : t.kind = "start"
    /\ NoStaleTimer(climate)

\* the timers of a push were cancelled by a manual request
C37_CancelledByOverride ==
    /\ did # None
    /\ did[1].op = "async_set_temperature"
    /\ climate.override_type = Some("boost")
    /\ PreheatTimers(climate) = {}
    /\ \E t \in climate.timers : t.kind = "boost"

----------------------------------------------------------------------------
(* Output applications that overlap.  _apply_output reads the effective    *)
(* target, awaits the service calls to the valves and then runs            *)
(* _update_demand, which awaits the learning store when the cycle it ends  *)
(* gives a sample.  Every handler is a task of its own: while one is       *)
(* suspended at an await, another runs.  A task in tasks is at "commands"  *)
(* (the service calls) or at "save" (async_save in end_cycle) and carries  *)
(* the local variables it goes on with.                                    *)

MaxTasks == 2
OverlapTemps == {Some(180), Some(215)}
OverlapTargets == {5, 21}
OverlapZone == "zone1"

FreeIds == (1..MaxTasks) \ {t.id : t \in tasks}
NewId == CHOOSE i \in FreeIds : \A j \in FreeIds : i <= j

\* what a handler has done to the zone when it calls _apply_output
BeforeOutput(z, z0) == [z EXCEPT !.demand = z0.demand, !.applied = FALSE, !.sent = None]

\* the zone once _apply_output has issued its service calls
Commanded(z) == [apply_output(z) EXCEPT !.demand = z.demand]

\* _apply_output up to its first await: the task it leaves suspended, None
\* when it ends without one
apply_output_begin(z, id) ==
    IF z.maintenance_active THEN None
    ELSE Some([id |-> id, at |-> "commands",
               target |-> IF z.battery_lock THEN None ELSE effective_target(z),
               demand |-> FALSE, start_temp |-> 0])

\* start_temp = self._current_temperature or target or 0
StartTemp(z, target) ==
    IF z.current_temperature # None /\ z.current_temperature[1] # 0
    THEN z.current_temperature[1]
    ELSE IF target # None /\ target[1] # 0 THEN Tenths(target[1]) ELSE 0

Direction(demand) == IF demand THEN "heating" ELSE "cooling"

\* _update_demand from the start of the new cycle on: the cycle of the new
\* direction, the demand stored
update_demand_end(z, cyc, demand, start_temp) ==
    [z |-> [z EXCEPT !.demand = demand],
     cycles |-> [cyc EXCEPT ![Direction(demand)] = Some([start_temp |-> start_temp])],
     forward |-> Some(demand),
     task |-> None]

\* _update_demand(target) up to the await in end_cycle; sample: the cycle
\* it ends gives a sample, which end_cycle saves
update_demand_begin(z, cyc, t, sample) ==
    LET demand == update_demand(z, t.target).demand
        ended == Direction(~demand)
        popped == [cyc EXCEPT ![ended] = None]
        start_temp == StartTemp(z, t.target)
    IN  IF demand = z.demand
        THEN [z |-> z, cycles |-> cyc, forward |-> None, task |-> None]
        ELSE IF cyc[ended] # None /\ sample
        THEN [z |-> z, cycles |-> popped, forward |-> None,
              task |-> Some([t EXCEPT !.at = "save", !.demand = demand,
                                      !.start_temp = start_temp])]
        ELSE update_demand_end(z, popped, demand, start_temp)

\* self._coordinator.async_update_demand(zone_id, demand), not immediate
Forward(c, forward) ==
    IF forward = None THEN c
    ELSE schedule_demand_update(
             [c EXCEPT !.pending_demand = DictSet(@, OverlapZone, forward[1])], Now)

\* a handler has changed the zone to z and calls _apply_output
StartOutput(z, label) ==
    LET task == apply_output_begin(z, NewId)
    IN  /\ Cardinality(tasks) < MaxTasks
        /\ climate' = Commanded(z)
        /\ tasks' = IF task = None THEN tasks ELSE tasks \cup {task[1]}
        /\ overlapped' = (overlapped \/ tasks # {})
        /\ did' = Some(label)
        /\ UNCHANGED <<coordinator_vars, arb, learning, wm, pm, calc, cycles>>

\* _handle_state_change for a temperature sensor
TemperatureReported(temperature) ==
    StartOutput(update_current_temperature(Entered, temperature, FALSE),
                [op |-> "temperature"])

\* _handle_schedule with no effective time
SchedulePushed(target) ==
    StartOutput(BeforeOutput(handle_schedule(Entered, target, None, None), climate),
                [op |-> "_handle_schedule", target |-> target, future |-> FALSE])

Resumed(t, r) ==
    /\ climate' = r.z
    /\ cycles' = r.cycles
    /\ tasks' = (tasks \ {t}) \cup (IF r.task = None THEN {} ELSE {r.task[1]})
    /\ coord' = Forward(coord, r.forward)
    /\ latest' = IF r.forward = None THEN latest
                 ELSE DictSet(latest, OverlapZone, r.forward[1])
    /\ did' = Some([op |-> "_update_demand", target |-> t.target,
                    ended |-> r.task = None, overlapped |-> overlapped])
    /\ UNCHANGED <<call, waiters, windows, ran, master_warnings, failures, hold>>
    /\ UNCHANGED <<direct, last, budget, arb, learning, wm, pm, calc, overlapped>>

\* the service calls of a task return: it runs _update_demand
CommandsReturn(t, sample) ==
    /\ t \in tasks
    /\ t.at = "commands"
    /\ Resumed(t, update_demand_begin(climate, cycles, t, sample))

\* async_save returns: end_cycle and _update_demand run to their ends
SaveReturns(t) ==
    /\ t \in tasks
    /\ t.at = "save"
    /\ Resumed(t, update_demand_end(climate, cycles, t.demand, t.start_temp))

\* a started zone with somebody home, the room at 18.0 and the stored
\* target 5: it has had no demand yet and no learning cycle
StartedZone ==
    async_startup([NewZone(FALSE) EXCEPT !.home = TRUE], Some(5), FALSE, FALSE, Some(180))

InitOverlap ==
    /\ CoordinatorAtRest
    /\ climate = StartedZone
    /\ arb = NoArbitration
    /\ did = None
    /\ ComponentsAtRest

NextOverlap ==
    \/ \E temperature \in OverlapTemps : TemperatureReported(temperature)
    \/ \E target \in OverlapTargets : SchedulePushed(target)
    \/ \E t \in tasks, sample \in BOOLEAN : CommandsReturn(t, sample)
    \/ \E t \in tasks : SaveReturns(t)

SpecOverlap == InitOverlap /\ [][NextOverlap]_vars

ExpectedDemand(z) == update_demand(z, effective_target(z)).demand

Forwarded(c) == DictUpdate(c.demand, c.pending_demand)

NoOutputUnderWay == tasks = {} /\ did # None /\ did[1].op = "_update_demand"

\* C38: the zone never has a heating cycle and a cooling cycle active at
\* the same time, and an active cycle is of the direction of the stored
\* demand: heating while the zone demands heat, cooling while it does not.
C38_OneCycleOfTheDemand ==
    /\ ~(cycles.heating # None /\ cycles.cooling # None)
    /\ cycles.heating # None => climate.demand
    /\ cycles.cooling # None => ~climate.demand

\* the same while no two output applications have been under way at once
C38_WithoutOverlap ==
    ~overlapped => C38_OneCycleOfTheDemand

\* every change of the stored demand closes the cycle of the other
\* direction and leaves a cycle of the new direction active, and the new
\* demand is what is passed to the supervisor
C38_TransitionSwitchesCycle ==
    [][climate'.demand # climate.demand =>
           /\ cycles'[Direction(~climate'.demand)] = cycles[Direction(~climate'.demand)]
                  \/ cycles'[Direction(~climate'.demand)] = None
           /\ cycles'[Direction(climate'.demand)] # None
           /\ OverlapZone \in DOMAIN coord'.pending_demand
           /\ coord'.pending_demand[OverlapZone] = climate'.demand]_vars

\* the zone has gone from demand to no demand and back, one application at
\* a time
C38_HeatingAgain ==
    /\ ~overlapped
    /\ climate.demand
    /\ cycles.heating # None
    /\ did # None
    /\ did[1].op = "_update_demand"
    /\ did[1].ended
    /\ climate.current_temperature = Some(180)
    /\ climate.schedule_target = Some(21)

\* C40: when no output application is under way any more, the demand
\* stored, and passed to the supervisor if any was, is the one computed
\* from the zone's target and temperature as they are.
C40_LatestDemandWins ==
    NoOutputUnderWay =>
        /\ climate.demand = ExpectedDemand(climate)
        /\ OverlapZone \in DOMAIN Forwarded(coord)
               => Forwarded(coord)[OverlapZone] = climate.demand

\* the same while no two output applications have been under way at once
C40_WithoutOverlap ==
    ~overlapped => C40_LatestDemandWins

\* an application has ended alone with the demand it computed stored and
\* passed on
C40_EndedAlone ==
    /\ NoOutputUnderWay
    /\ ~overlapped
    /\ climate.demand
    /\ OverlapZone \in DOMAIN Forwarded(coord)

----------------------------------------------------------------------------
(* Unmet demand and the retry timer                                        *)

\* the step ends a recalculation that decided to turn the boiler on: it
\* was suppressed, or its driver call has returned
TurnOnEnded ==
    \/ /\ ran' # None
       /\ ran'[1].op = "recalculate"
       /\ ran'[1].decision = "on"
       /\ call' = None
    \/ /\ DriverReturned'
       /\ last'[1].call.kind = "on"

RetryPending(c) == c.retry_unsub # None

Unmet == AnyDemand(coord.demand) /\ coord.state # "firing"
Firing == coord.state = "firing"

\* the master switch is not off when the operation begun by the step reads it
MasterNotOff == ran' = None \/ ran'[1].master # "off"

\* the driver accepts the call or reports its entity unavailable
LiveOutcomes == {"ok", "entity unavailable"}

\* a task waiting for the lock that the last holder has released
WaiterReady == call = None /\ waiters # << >>

\* demand that persists, a master switch that is not off and a driver that
\* succeeds once retry_attempts has reached the budget.  Requests arrive
\* while a driver call is in flight or the supervisor is idle: a waiter the
\* lock has been handed to runs before the next request is handled, since
\* only finitely many requests arrive in an interval
NextLive ==
    \/ ~WaiterReady /\ UpdateDemand("zone1", TRUE, TRUE) /\ MasterNotOff
    \/ Retry /\ MasterNotOff
    \/ ~WaiterReady /\ Recalculate /\ MasterNotOff
    \/ RunWaiter /\ MasterNotOff
    \/ \E o \in LiveOutcomes, w \in BOOLEAN : CallReturns(o, w)
    \/ \E d \in DeadlineSteps(coord) : Tick(d)

\* the event loop runs what is ready: a timer that is due fires, a driver
\* call returns, a task waiting for the lock gets it and the clock moves on
Fairness ==
    /\ WF_vars(Retry /\ MasterNotOff)
    /\ WF_vars(RunWaiter /\ MasterNotOff)
    /\ WF_vars(\E o \in LiveOutcomes, w \in BOOLEAN : CallReturns(o, w))
    /\ WF_vars(\E d \in DeadlineSteps(coord) : Tick(d))

SpecLive == Init /\ [][NextLive]_vars /\ Fairness

\* a recalculation that decided to turn on and has not ended Firing leaves
\* a retry timer pending
C39_RetryPendingEverywhere ==
    [][(TurnOnEnded /\ coord'.state # "firing") => RetryPending(coord')]_vars

\* C39: a recalculation that decided to turn the boiler on (some zone
\* demands heat, the master switch is not off) and does not end Firing,
\* because the turn-on was suppressed or failed, leaves a retry timer
\* pending; and while the demand persists and the driver comes to accept
\* the call, unmet demand leads to Firing.
C39_NoUnmetDemandWithoutRetry ==
    /\ [][(TurnOnEnded /\ coord'.state # "firing") => RetryPending(coord')]_vars
    /\ Unmet ~> Firing

\* a failed turn-on has left the supervisor in Failsafe with demand and a
\* retry pending
C39_Witness ==
    /\ DriverReturned
    /\ last[1].call.kind = "on"
    /\ ~last[1].success
    /\ Unmet
    /\ coord.state = "failsafe"
    /\ RetryPending(coord)
    /\ coord.retry_attempts = 2

\* a suppressed turn-on: demand during the cooldown, the retry pending
C39_WitnessSuppressed ==
    /\ ran # None
    /\ ran[1].decision = "on"
    /\ call = None
    /\ Unmet
    /\ coord.state = "anti_cycle_cooldown"
    /\ RetryPending(coord)

====
